---- MODULE Spec2Model ----
(***************************************************************************)
(* SmartReporter (src/pages/QuickTransactionPage.ts, from line 138): the   *)
(* rolling test history, the per-test analysis done in onTestEnd and the   *)
(* steps of onEnd.                                                         *)
(*                                                                         *)
(* JSON documents are TLA+ functions with string domains: an object with   *)
(* the keys runs/tests/summaries is a record, a mapping testId -> entries  *)
(* is a function over a set of test ids, and an optional field is a key    *)
(* that may be missing from the DOMAIN.  The flakiness score and the       *)
(* average duration are kept as exact fractions [num, den]; for the small  *)
(* integers used here a comparison of such a fraction with the literals    *)
(* 0.1 and 0.3 gives in IEEE doubles what it gives over the rationals.     *)
(* The pass rate is computed in doubles, bit by bit, and so is the         *)
(* performance comparison where it is close.                               *)
(***************************************************************************)
EXTENDS Integers, Sequences, FiniteSets, TLC

VARIABLES
    pc,         \* where the reporter process is in its life cycle
    options,    \* SmartReporter.options (line 139)
    results,    \* SmartReporter.results (line 141)
    history,    \* SmartReporter.history (line 142), the in-memory document
    currentRun, \* SmartReporter.currentRun (line 143)
    startTime,  \* SmartReporter.startTime (line 144)
    file,       \* the history file on disk
    report,     \* what this process has written to the report file
    outbox,     \* the outbound requests (AI, Slack, Teams) of this process
    now,        \* the wall clock
    loaded,     \* what onBegin found on disk and what loadHistory made of it
    cli,        \* the merge tool's process (merge-history.ts, main)
    peer        \* a second reporter process working on the same history file

vars == <<pc, options, results, history, currentRun, startTime, file, report,
          outbox, now, loaded, cli, peer>>

----------------------------------------------------------------------------
(* Bounds of the model *)

MaxResults == 2       \* onTestEnd notifications in one run
MaxCap == 2           \* largest configured maxHistoryRuns
MaxHistLen == 10      \* longest history sequence drawn by InitAnalysis
FirstRunTime == 3     \* the clock when the model starts; the files on disk are older
MaxTrendLen == 3      \* passed entries, and failed entries, drawn by InitTrend
MaxDuration == 15     \* longest duration drawn by InitTrend and NextTrend
MaxCounted == 40      \* passed and failed results drawn by InitSummary
MaxOnEndResults == 3  \* results drawn by InitOnEnd
MaxRetry == 4         \* largest retry count and retry threshold drawn by InitRetry
MaxRetryHist == 4     \* longest history drawn by InitRetry
MaxOthers == 2        \* skipped or interrupted results drawn by InitSummary
MaxSummaries == 3     \* persisted summaries drawn by InitChart
MaxChartResults == 3  \* results drawn by InitChart
MaxArgs == 3          \* arguments of a merge command drawn by NextCli
MaxMergeLen == 2      \* entries of a test in a.json drawn by InitMerge
MaxMergeCap == 2      \* largest -n drawn by InitMerge
MaxFailed == 6        \* failed or timed out results drawn by InitWebhooks
MaxRaceResults == 1   \* results of the peer process of SpecRace

(* Inputs *)

Statuses == {"passed", "failed", "skipped", "timedOut", "interrupted"}
Files == {"a.spec.ts"}
Titles == {"t1", "t2"}
TestCases == [file : Files, title : Titles]
Durations == {0, 10, 20}   \* drawn by the analysis specification
RunDurations == {10}      \* drawn by Spec
RunStatuses == Statuses \ {"interrupted"}   \* drawn by Spec
DefaultMaxHistoryRuns == 10
DefaultThreshold == [num |-> 1, den |-> 5]
Caps == 0..MaxCap

----------------------------------------------------------------------------
(* Values *)

EmptyMap == [k \in {} |-> <<>>]

Put(m, k, v) == (k :> v) @@ m

EmptyHistory == [runs |-> <<>>, tests |-> EmptyMap, summaries |-> <<>>]

NoRun == [runId |-> 0, timestamp |-> 0]

Missing == [kind |-> "missing"]
Corrupt == [kind |-> "corrupt"]
Json(doc) == [kind |-> "json", doc |-> doc]

\* no merge tool is running; no second reporter is running
NoCli == [pc |-> "none"]
NoPeer == [pc |-> "none"]

NoReport == [kind |-> "none"]

RECURSIVE SumDuration(_)
SumDuration(s) == IF s = <<>> THEN 0 ELSE Head(s).duration + SumDuration(Tail(s))

Count(s, P(_)) == Len(SelectSeq(s, P))

\* Array.prototype.slice(-n): the last n elements for n > 0; slice(-0) is
\* slice(0), the whole array.
SliceLast(s, n) ==
    IF n = 0 \/ n >= Len(s) THEN s ELSE SubSeq(s, Len(s) - n + 1, Len(s))


\* e.skipped of an entry whose optional field skipped may be missing
IsSkipped(e) == "skipped" \in DOMAIN e /\ e.skipped

----------------------------------------------------------------------------
(* JavaScript numbers.  A Number is an IEEE 754 double: a non-negative one *)
(* is kept as [bits, exp], its value the binary number bits (least         *)
(* significant bit first, top bit 1, at most Mantissa bits) times 2^exp;   *)
(* zero has no bits.  Every operation rounds its exact result to the       *)
(* nearest double, ties to even.                                           *)

Mantissa == 53

\* Numbers longer than a TLC integer are worked on Limb bits at a time.
Limb == 15

\* the number of bits of n < 2^31
BitLength(n) == Cardinality({k \in 0..30 : 2^k <= n})

\* the n lowest bits of x, least significant first
LowBits(x, n) == [i \in 1..n |-> (x \div 2^(i - 1)) % 2]

NatToBits(n) == LowBits(n, BitLength(n))

RECURSIVE BitsToNat(_)
BitsToNat(b) ==
    IF b = <<>> THEN 0
    ELSE IF Len(b) = 1 THEN b[1]
    ELSE LET h == Len(b) \div 2
         IN  BitsToNat(SubSeq(b, 1, h)) + 2^h * BitsToNat(SubSeq(b, h + 1, Len(b)))

\* b without its zeros at the top
RECURSIVE Trim(_)
Trim(b) ==
    IF b = <<>> \/ b[Len(b)] = 1 THEN b
    ELSE LET n == IF Len(b) < Limb THEN Len(b) ELSE Limb
             top == BitsToNat(SubSeq(b, Len(b) - n + 1, Len(b)))
         IN  IF top = 0 THEN Trim(SubSeq(b, 1, Len(b) - n))
             ELSE SubSeq(b, 1, Len(b) - n + BitLength(top))

ShiftLeft(b, k) == IF b = <<>> THEN b ELSE [i \in 1..k |-> 0] \o b

RECURSIVE AddBits(_, _, _)
AddBits(a, b, carry) ==
    IF a = <<>> /\ b = <<>> THEN (IF carry = 1 THEN <<1>> ELSE <<>>)
    ELSE LET longest == IF Len(a) < Len(b) THEN Len(b) ELSE Len(a)
             n == IF longest < Limb THEN longest ELSE Limb
             na == IF Len(a) < n THEN Len(a) ELSE n
             nb == IF Len(b) < n THEN Len(b) ELSE n
             sum == BitsToNat(SubSeq(a, 1, na)) + BitsToNat(SubSeq(b, 1, nb)) + carry
         IN  LowBits(sum, n) \o AddBits(SubSeq(a, na + 1, Len(a)),
                                        SubSeq(b, nb + 1, Len(b)), sum \div 2^n)

\* a - b - borrow for a >= b + borrow, as many bits as a
RECURSIVE SubBits(_, _, _)
SubBits(a, b, borrow) ==
    IF a = <<>> THEN <<>>
    ELSE LET n == IF Len(a) < Limb THEN Len(a) ELSE Limb
             nb == IF Len(b) < n THEN Len(b) ELSE n
             d == BitsToNat(SubSeq(a, 1, n)) - BitsToNat(SubSeq(b, 1, nb)) - borrow
         IN  LowBits(IF d < 0 THEN d + 2^n ELSE d, n)
                 \o SubBits(SubSeq(a, n + 1, Len(a)), SubSeq(b, nb + 1, Len(b)),
                            IF d < 0 THEN 1 ELSE 0)

\* a < b for a, b without zeros at the top
RECURSIVE LessBits(_, _)
LessBits(a, b) ==
    IF Len(a) # Len(b) THEN Len(a) < Len(b)
    ELSE IF a = <<>> THEN FALSE
    ELSE LET n == IF Len(a) < Limb THEN Len(a) ELSE Limb
             x == BitsToNat(SubSeq(a, Len(a) - n + 1, Len(a)))
             y == BitsToNat(SubSeq(b, Len(b) - n + 1, Len(b)))
         IN  IF x # y THEN x < y
             ELSE LessBits(SubSeq(a, 1, Len(a) - n), SubSeq(b, 1, Len(b) - n))

RECURSIVE MulBits(_, _)
MulBits(a, k) ==
    IF k = 0 THEN <<>>
    ELSE IF k % 2 = 1 THEN AddBits(a, <<0>> \o MulBits(a, k \div 2), 0)
    ELSE <<0>> \o MulBits(a, k \div 2)

Reverse(s) == [i \in 1..Len(s) |-> s[Len(s) + 1 - i]]

Zero == [bits |-> <<>>, exp |-> 0]

ToDouble(n) == [bits |-> NatToBits(n), exp |-> 0]

\* the double nearest to b * 2^exp, ties to even (b least significant bit
\* first with top bit 1; sticky: a nonzero part below b was cut off)
RoundToDouble(b, exp, sticky) ==
    IF b = <<>> THEN Zero
    ELSE IF Len(b) <= Mantissa THEN [bits |-> b, exp |-> exp]
    ELSE LET drop == Len(b) - Mantissa
             kept == SubSeq(b, drop + 1, Len(b))
             guard == b[drop]
             rest == sticky \/ \E i \in 1..(drop - 1) : b[i] = 1
             up == guard = 1 /\ (rest \/ kept[1] = 1)
             sum == IF up THEN AddBits(kept, <<1>>, 0) ELSE kept
         IN  IF Len(sum) > Mantissa
             THEN [bits |-> Tail(sum), exp |-> exp + drop + 1]
             ELSE [bits |-> sum, exp |-> exp + drop]

\* Long division gives one binary place at each step and stops at
\* Mantissa + 1 significant bits or at a zero remainder; places before the
\* first 1 give no bit, and there are fewer than Mantissa + 1 of them.
DivisionSteps == 2 * Mantissa + 2

Divided(q) == Len(q.bits) = Mantissa + 1 \/ q.r = 0

\* the next binary place of r / n
QuotientStep(q, n) ==
    IF Divided(q) THEN q
    ELSE LET b == IF q.r >= n THEN 1 ELSE 0
         IN  [r |-> 2 * (q.r - b * n),
              bits |-> IF q.bits = <<>> /\ b = 0 THEN q.bits ELSE Append(q.bits, b),
              place |-> q.place + 1]

\* k steps, the first half of them before the second
RECURSIVE QuotientSteps(_, _, _)
QuotientSteps(q, n, k) ==
    IF k = 1 THEN QuotientStep(q, n)
    ELSE LET half == QuotientSteps(q, n, k \div 2)
         IN  IF Divided(half) THEN half ELSE QuotientSteps(half, n, k - k \div 2)

\* the binary expansion of r / n (r < 2n) from the binary place `place` on,
\* up to Mantissa + 1 significant bits, most significant first
Quotient(r, n, bits, place) ==
    LET q == QuotientSteps([r |-> r, bits |-> bits, place |-> place], n, DivisionSteps)
    IN  [bits |-> q.bits, place |-> q.place, sticky |-> q.r # 0]

\* the least k with p < 2 * n * 2^k
RECURSIVE Scale(_, _)
Scale(p, n) == IF p < 2 * n THEN 0 ELSE 1 + Scale(p, 2 * n)

\* p / n for integers p >= 0, n > 0
FDiv(p, n) ==
    IF p = 0 THEN Zero
    ELSE LET k == Scale(p, n)
             q == Quotient(p, n * 2^k, <<>>, 0)
         IN  RoundToDouble(Reverse(q.bits), 1 - q.place + k, q.sticky)

DividedBits(q) == Len(q.bits) = Mantissa + 1 \/ q.r = <<>>

\* QuotientStep on numbers of any size, given by their bits
QuotientBitsStep(q, y) ==
    IF DividedBits(q) THEN q
    ELSE LET b == IF LessBits(q.r, y) THEN 0 ELSE 1
             rem == IF b = 1 THEN Trim(SubBits(q.r, y, 0)) ELSE q.r
         IN  [r |-> ShiftLeft(rem, 1),
              bits |-> IF q.bits = <<>> /\ b = 0 THEN q.bits ELSE Append(q.bits, b),
              place |-> q.place + 1]

RECURSIVE QuotientBitsSteps(_, _, _)
QuotientBitsSteps(q, y, k) ==
    IF k = 1 THEN QuotientBitsStep(q, y)
    ELSE LET half == QuotientBitsSteps(q, y, k \div 2)
         IN  IF DividedBits(half) THEN half
             ELSE QuotientBitsSteps(half, y, k - k \div 2)

\* Quotient on numbers of any size, given by their bits
QuotientBits(r, y, bits, place) ==
    LET q == QuotientBitsSteps([r |-> r, bits |-> bits, place |-> place], y,
                               DivisionSteps)
    IN  [bits |-> q.bits, place |-> q.place, sticky |-> q.r # <<>>]

\* x / y for doubles x >= 0, y > 0
FDivDouble(x, y) ==
    IF x.bits = <<>> THEN Zero
    ELSE LET k == IF Len(x.bits) > Len(y.bits) THEN Len(x.bits) - Len(y.bits) ELSE 0
             q == QuotientBits(x.bits, ShiftLeft(y.bits, k), <<>>, 0)
         IN  RoundToDouble(Reverse(q.bits), 1 - q.place + k + x.exp - y.exp, q.sticky)

\* x * k for a double x >= 0 and an integer k >= 0
FMul(x, k) ==
    IF x.bits = <<>> \/ k = 0 THEN Zero
    ELSE RoundToDouble(MulBits(x.bits, k), x.exp, FALSE)

\* the bits of x and y over the smaller of their exponents
Aligned(x, y) ==
    LET e == IF x.exp < y.exp THEN x.exp ELSE y.exp
    IN  [x |-> ShiftLeft(x.bits, x.exp - e), y |-> ShiftLeft(y.bits, y.exp - e),
         exp |-> e]

\* x < y for doubles x, y >= 0
FLess(x, y) == LET a == Aligned(x, y) IN LessBits(a.x, a.y)

\* x - y for doubles x >= y >= 0
FSub(x, y) ==
    LET a == Aligned(x, y) IN RoundToDouble(Trim(SubBits(a.x, a.y, 0)), a.exp, FALSE)

\* Math.round of a double x >= 0 below 2^31: the nearest integer, halves up
MathRound(x) ==
    IF x.bits = <<>> THEN 0
    ELSE IF x.exp >= 0 THEN BitsToNat(ShiftLeft(x.bits, x.exp))
    ELSE LET s == -x.exp
             L == Len(x.bits)
         IN  (IF s < L THEN BitsToNat(SubSeq(x.bits, s + 1, L)) ELSE 0)
             + (IF s <= L THEN x.bits[s] ELSE 0)

\* (passed + failed) > 0 ? Math.round((passed / (passed + failed)) * 100) : 0
PassRate(passed, failed) ==
    IF passed + failed > 0 THEN MathRound(FMul(FDiv(passed, passed + failed), 100))
    ELSE 0

----------------------------------------------------------------------------
(* Flakiness and performance *)

GetTestId(test) ==
    CASE test.file = "a.spec.ts" /\ test.title = "t1" -> "a.spec.ts::t1"
      [] test.file = "a.spec.ts" /\ test.title = "t2" -> "a.spec.ts::t2"

TestIds == {GetTestId(t) : t \in TestCases}

\* GetFlakinessIndicator with the band limits taken on the wrong side
\* (score <= 0.1, score <= 0.3)
GetFlakinessIndicatorInclusive(score) ==
    IF 10 * score.num <= score.den THEN "Stable"
    ELSE IF 10 * score.num <= 3 * score.den THEN "Unstable"
    ELSE "Flaky"

\* score is failures/total as [num, den], den > 0
GetFlakinessIndicator(score) ==
    IF 10 * score.num < score.den THEN "Stable"
    ELSE IF 10 * score.num < 3 * score.den THEN "Unstable"
    ELSE "Flaky"

\* getPerformanceTrend in doubles, for average.num > 0 and a threshold >= 0:
\* diff = (current - average) / average, `diff > threshold`, then
\* `diff < -threshold`.  The literal of the threshold is the double nearest
\* to the fraction.
TrendInDoubles(current, average, threshold) ==
    LET avg == FDiv(average.num, average.den)
        cur == ToDouble(current)
        th == FDiv(threshold.num, threshold.den)
    IN  IF FLess(cur, avg)
        THEN IF FLess(th, FDivDouble(FSub(avg, cur), avg)) THEN "faster" ELSE "Stable"
        ELSE IF FLess(th, FDivDouble(FSub(cur, avg), avg)) THEN "slower" ELSE "Stable"

\* diff = (current - average) / average with average = [num, den], den > 0.
\* An average of 0 makes diff NaN (current = 0: every comparison is false)
\* or +Infinity (current > 0: greater than every threshold).  Where the
\* exact quotient d / average.num is off the threshold, it is so by at least
\* 1 / (threshold.den * average.num), orders of magnitude more than the
\* rounding errors of the three operations, and the doubles compare as the
\* exact numbers do; where it is on the threshold the doubles decide.
GetPerformanceTrend(current, average, threshold) ==
    LET d == current * average.den - average.num   \* diff = d / average.num
        mag == IF d < 0 THEN -d ELSE d
    IN  IF average.num = 0
        THEN IF current > 0 THEN "slower" ELSE "Stable"
        ELSE IF mag * threshold.den = threshold.num * average.num
        THEN TrendInDoubles(current, average, threshold)
        ELSE IF d * threshold.den > threshold.num * average.num THEN "slower"
        ELSE IF d * threshold.den < -(threshold.num * average.num) THEN "faster"
        ELSE "Stable"

\* Analyse looking at the history before the status: a skipped test with
\* history is scored like any other
AnalyseHistoryFirst(testData, threshold) ==
    LET historyEntries == testData.history
        relevantHistory == SelectSeq(historyEntries, LAMBDA e : ~IsSkipped(e))
        failures == Count(relevantHistory, LAMBDA e : ~e.passed)
        flakinessScore == [num |-> failures, den |-> Len(relevantHistory)]
        avgDuration == [num |-> SumDuration(relevantHistory),
                        den |-> Len(relevantHistory)]
    IN  IF Len(historyEntries) > 0 /\ Len(relevantHistory) > 0
        THEN testData @@ [flakinessScore |-> flakinessScore,
                          flakinessIndicator |-> GetFlakinessIndicator(flakinessScore),
                          averageDuration |-> avgDuration,
                          performanceTrend |->
                              GetPerformanceTrend(testData.duration, avgDuration, threshold)]
        ELSE IF testData.status = "skipped"
        THEN testData @@ [flakinessIndicator |-> "Skipped",
                          performanceTrend |-> "Skipped"]
        ELSE testData @@ [flakinessIndicator |-> "New",
                          performanceTrend |-> "Baseline"]

\* Analyse without the filter on skipped entries
AnalyseUnfiltered(testData, threshold) ==
    LET historyEntries == testData.history
        failures == Count(historyEntries, LAMBDA e : ~e.passed)
        flakinessScore == [num |-> failures, den |-> Len(historyEntries)]
        avgDuration == [num |-> SumDuration(historyEntries),
                        den |-> Len(historyEntries)]
    IN  IF testData.status = "skipped"
        THEN testData @@ [flakinessIndicator |-> "Skipped",
                          performanceTrend |-> "Skipped"]
        ELSE IF Len(historyEntries) > 0
        THEN testData @@ [flakinessScore |-> flakinessScore,
                          flakinessIndicator |-> GetFlakinessIndicator(flakinessScore),
                          averageDuration |-> avgDuration,
                          performanceTrend |->
                              GetPerformanceTrend(testData.duration, avgDuration, threshold)]
        ELSE testData @@ [flakinessIndicator |-> "New",
                          performanceTrend |-> "Baseline"]

\* lines 222-253 of onTestEnd: the fields the analysis attaches to testData
Analyse(testData, threshold) ==
    LET historyEntries == testData.history
        relevantHistory == SelectSeq(historyEntries, LAMBDA e : ~IsSkipped(e))
        failures == Count(relevantHistory, LAMBDA e : ~e.passed)
        flakinessScore == [num |-> failures, den |-> Len(relevantHistory)]
        avgDuration == [num |-> SumDuration(relevantHistory),
                        den |-> Len(relevantHistory)]
    IN  IF testData.status = "skipped"
        THEN testData @@ [flakinessIndicator |-> "Skipped",
                          performanceTrend |-> "Skipped"]
        ELSE IF Len(historyEntries) > 0 /\ Len(relevantHistory) > 0
        THEN testData @@ [flakinessScore |-> flakinessScore,
                          flakinessIndicator |-> GetFlakinessIndicator(flakinessScore),
                          averageDuration |-> avgDuration,
                          performanceTrend |->
                              GetPerformanceTrend(testData.duration, avgDuration, threshold)]
        ELSE testData @@ [flakinessIndicator |-> "New",
                          performanceTrend |-> "Baseline"]

----------------------------------------------------------------------------
(* History management *)

\* loadHistory without the catch: the parse error leaves onBegin
LoadHistoryUncaught(f, initial) ==
    [threw |-> f.kind = "corrupt",
     history |-> IF f.kind \in {"missing", "corrupt"} THEN initial
                 ELSE IF "tests" \in DOMAIN f.doc THEN f.doc
                 ELSE [runs |-> <<>>, tests |-> f.doc, summaries |-> <<>>]]

\* loadHistory taking only the current shape: a legacy document is dropped
LoadHistoryDropsLegacy(f, initial) ==
    [threw |-> FALSE,
     history |-> IF f.kind = "missing" THEN initial
                 ELSE IF f.kind = "corrupt" THEN EmptyHistory
                 ELSE IF "tests" \in DOMAIN f.doc THEN f.doc
                 ELSE EmptyHistory]

\* loadHistory on the content f of the history file: whether an exception
\* leaves it (the try block holds the read and the parse, and its catch takes
\* every exception) and the document it leaves in this.history, given the
\* document the constructor put there.
LoadHistory(f, initial) ==
    [threw |-> FALSE,
     history |-> IF f.kind = "missing" THEN initial
                 ELSE IF f.kind = "corrupt" THEN EmptyHistory
                 ELSE IF "tests" \in DOMAIN f.doc THEN f.doc
                 ELSE [runs |-> <<>>, tests |-> f.doc, summaries |-> <<>>]]

HistoryEntry(result, timestamp) ==
    [passed |-> result.status = "passed",
     duration |-> result.duration,
     timestamp |-> timestamp,
     skipped |-> result.status = "skipped"]

\* one iteration of the loop of updateHistory (lines 301-319)
RecordResult(tests, result, timestamp, maxHistoryRuns) ==
    LET prior == IF result.testId \in DOMAIN tests THEN tests[result.testId] ELSE <<>>
        pushed == Append(prior, HistoryEntry(result, timestamp))
    IN  Put(tests, result.testId,
            IF Len(pushed) > maxHistoryRuns THEN SliceLast(pushed, maxHistoryRuns)
            ELSE pushed)

\* the loop of updateHistory after some iterations: the tests so far and
\* the results still to record
RecordStep(loop, timestamp, maxHistoryRuns) ==
    IF loop.rest = <<>> THEN loop
    ELSE [tests |-> RecordResult(loop.tests, Head(loop.rest), timestamp, maxHistoryRuns),
          rest |-> Tail(loop.rest)]

\* k iterations, the first half of them before the second
RECURSIVE RecordSteps(_, _, _, _)
RecordSteps(loop, timestamp, maxHistoryRuns, k) ==
    IF k = 1 THEN RecordStep(loop, timestamp, maxHistoryRuns)
    ELSE LET half == RecordSteps(loop, timestamp, maxHistoryRuns, k \div 2)
         IN  IF half.rest = <<>> THEN half
             ELSE RecordSteps(half, timestamp, maxHistoryRuns, k - k \div 2)

\* for (const result of this.results) (lines 301-319)
RecordResults(tests, rs, timestamp, maxHistoryRuns) ==
    IF rs = <<>> THEN tests
    ELSE RecordSteps([tests |-> tests, rest |-> rs], timestamp, maxHistoryRuns,
                     Len(rs)).tests

IsFailure(r) == r.status = "failed" \/ r.status = "timedOut"
IsFlaky(r) == "flakinessScore" \in DOMAIN r /\ r.flakinessScore.num > 0
              /\ 10 * r.flakinessScore.num >= 3 * r.flakinessScore.den
IsSlow(r) == r.performanceTrend = "slower"

\* RunSummary counting as failed only the status failed, as the report
\* header does
RunSummaryFailedOnly(rs, run, duration) ==
    LET passed == Count(rs, LAMBDA r : r.status = "passed")
        failed == Count(rs, LAMBDA r : r.status = "failed")
    IN  [runId |-> run.runId,
         timestamp |-> run.timestamp,
         total |-> Len(rs),
         passed |-> passed,
         failed |-> failed,
         skipped |-> Count(rs, LAMBDA r : r.status = "skipped"),
         flaky |-> Count(rs, IsFlaky),
         slow |-> Count(rs, IsSlow),
         duration |-> duration,
         passRate |-> PassRate(passed, failed)]

\* lines 325-343
RunSummary(rs, run, duration) ==
    LET passed == Count(rs, LAMBDA r : r.status = "passed")
        failed == Count(rs, IsFailure)
    IN  [runId |-> run.runId,
         timestamp |-> run.timestamp,
         total |-> Len(rs),
         passed |-> passed,
         failed |-> failed,
         skipped |-> Count(rs, LAMBDA r : r.status = "skipped"),
         flaky |-> Count(rs, IsFlaky),
         slow |-> Count(rs, IsSlow),
         duration |-> duration,
         passRate |-> PassRate(passed, failed)]

\* updateHistory pushing the metadata of the current run onto runs as well
UpdateHistoryPushingRun(h, rs, run, timestamp, duration, maxHistoryRuns) ==
    LET summaries == IF "summaries" \in DOMAIN h THEN h.summaries ELSE <<>>
        pushed == Append(summaries, RunSummary(rs, run, duration))
    IN  [k \in DOMAIN h \cup {"summaries"} |->
            IF k = "tests" THEN RecordResults(h.tests, rs, timestamp, maxHistoryRuns)
            ELSE IF k = "summaries"
            THEN IF Len(pushed) > maxHistoryRuns THEN SliceLast(pushed, maxHistoryRuns)
                 ELSE pushed
            ELSE IF k = "runs" THEN Append(h[k], run)
            ELSE h[k]]

\* the document updateHistory leaves in this.history (lines 298-347)
UpdateHistory(h, rs, run, timestamp, duration, maxHistoryRuns) ==
    LET summaries == IF "summaries" \in DOMAIN h THEN h.summaries ELSE <<>>
        pushed == Append(summaries, RunSummary(rs, run, duration))
    IN  [k \in DOMAIN h \cup {"summaries"} |->
            IF k = "tests" THEN RecordResults(h.tests, rs, timestamp, maxHistoryRuns)
            ELSE IF k = "summaries"
            THEN IF Len(pushed) > maxHistoryRuns THEN SliceLast(pushed, maxHistoryRuns)
                 ELSE pushed
            ELSE h[k]]

----------------------------------------------------------------------------
(* Report *)

\* generateTrendChart without the bar of the current run
GenerateTrendChartPersistedOnly(h, rs, duration) ==
    LET summaries == IF "summaries" \in DOMAIN h THEN h.summaries ELSE <<>>
    IN  IF Len(summaries) < 2 THEN <<>>
        ELSE [i \in 1..Len(summaries) |->
                 [passed |-> summaries[i].passed, failed |-> summaries[i].failed,
                  duration |-> summaries[i].duration, flaky |-> summaries[i].flaky,
                  slow |-> summaries[i].slow]]

\* generateTrendChart: no chart below 2 persisted summaries, otherwise one
\* data point per persisted summary and one for the current run
GenerateTrendChart(h, rs, duration) ==
    LET summaries == IF "summaries" \in DOMAIN h THEN h.summaries ELSE <<>>
        point(s) == [passed |-> s.passed, failed |-> s.failed,
                     duration |-> s.duration, flaky |-> s.flaky, slow |-> s.slow]
        current == [passed |-> Count(rs, LAMBDA r : r.status = "passed"),
                    failed |-> Count(rs, IsFailure),
                    duration |-> duration,
                    flaky |-> Count(rs, IsFlaky),
                    slow |-> Count(rs, IsSlow)]
    IN  IF Len(summaries) < 2 THEN <<>>
        ELSE Append([i \in 1..Len(summaries) |-> point(summaries[i])], current)

\* generateHtml: the header figures (lines 601-612) and the trend chart
GenerateHtml(h, rs, duration) ==
    LET passed == Count(rs, LAMBDA r : r.status = "passed")
        failed == Count(rs, LAMBDA r : r.status = "failed")
    IN  [kind |-> "html",
         total |-> Len(rs),
         passed |-> passed,
         failed |-> failed,
         skipped |-> Count(rs, LAMBDA r : r.status = "skipped"),
         flaky |-> Count(rs, IsFlaky),
         slow |-> Count(rs, IsSlow),
         passRate |-> PassRate(passed, failed),
         tests |-> rs,
         trend |-> GenerateTrendChart(h, rs, duration)]

----------------------------------------------------------------------------
(* The reporter process *)

\* History files a run can find on disk: none, one that does not parse, the
\* legacy shape (the root is the tests mapping, entries without the field
\* skipped), the current shape without summaries, and the current shape as
\* written by earlier runs under the default maxHistoryRuns.
LegacyEntry(passed, timestamp) ==
    [passed |-> passed, duration |-> 10, timestamp |-> timestamp]

Entry(passed, skipped, duration, timestamp) ==
    [passed |-> passed, duration |-> duration, timestamp |-> timestamp,
     skipped |-> skipped]

OldSummary(t, passed, failed) ==
    [runId |-> t, timestamp |-> t, total |-> passed + failed, passed |-> passed,
     failed |-> failed, skipped |-> 0, flaky |-> 0, slow |-> 0, duration |-> 1,
     passRate |-> PassRate(passed, failed)]

InitialFiles ==
    { Missing, Corrupt,
      Json(Put(EmptyMap, "a.spec.ts::t1", <<LegacyEntry(FALSE, 2)>>)),
      Json([runs |-> <<>>,
            tests |-> Put(EmptyMap, "a.spec.ts::t1", <<Entry(TRUE, FALSE, 10, 2)>>)]),
      Json([runs |-> <<>>,
            tests |-> Put(EmptyMap, "a.spec.ts::t1",
                          <<Entry(TRUE, FALSE, 10, 0), Entry(FALSE, FALSE, 10, 1),
                            Entry(FALSE, TRUE, 0, 2)>>),
            summaries |-> <<OldSummary(0, 1, 0), OldSummary(1, 0, 1),
                            OldSummary(2, 0, 0)>>]) }

NoLoad == [from |-> Missing, doc |-> EmptyHistory]

Init ==
    /\ pc = "idle"
    /\ options = [maxHistoryRuns |-> DefaultMaxHistoryRuns,
                  performanceThreshold |-> DefaultThreshold]
    /\ results = <<>>
    /\ history = EmptyHistory
    /\ currentRun = NoRun
    /\ startTime = 0
    /\ file \in InitialFiles
    /\ report = NoReport
    /\ outbox = <<>>
    /\ now = FirstRunTime
    /\ loaded = NoLoad
    /\ cli = NoCli
    /\ peer = NoPeer

\* new SmartReporter(options) (lines 141-156)
Construct(maxHistoryRuns) ==
    /\ pc = "idle"
    /\ pc' = "constructed"
    /\ options' = [maxHistoryRuns |-> maxHistoryRuns,
                   performanceThreshold |-> DefaultThreshold]
    /\ results' = <<>>
    /\ history' = EmptyHistory
    /\ currentRun' = NoRun
    /\ startTime' = 0
    /\ UNCHANGED <<cli, peer, file, report, outbox, now, loaded>>

\* onBegin (lines 158-168)
OnBegin ==
    /\ pc = "constructed"
    /\ startTime' = now
    /\ LET load == LoadHistory(file, history)
       IN  IF load.threw
           THEN /\ pc' = "beginFailed"
                /\ UNCHANGED <<history, currentRun>>
           ELSE /\ pc' = "running"
                /\ history' = load.history
                /\ currentRun' = [runId |-> now, timestamp |-> now]
    /\ loaded' = [from |-> file, doc |-> history']
    /\ UNCHANGED <<cli, peer, options, results, file, report, outbox, now>>

\* onTestEnd recording the outcome in the in-memory document at once
OnTestEndRecording(test, status, duration, retry) ==
    /\ pc = "running"
    /\ Len(results) < MaxResults
    /\ LET testId == GetTestId(test)
           historyEntries == IF testId \in DOMAIN history.tests
                             THEN history.tests[testId] ELSE <<>>
           testData == [testId |-> testId, title |-> test.title, file |-> test.file,
                        status |-> status, duration |-> duration, retry |-> retry,
                        history |-> historyEntries]
       IN  /\ results' = Append(results, Analyse(testData, options.performanceThreshold))
           /\ history' = [history EXCEPT !.tests =
                              RecordResult(history.tests, testData, now,
                                           options.maxHistoryRuns)]
    /\ UNCHANGED <<cli, peer, pc, options, currentRun, startTime, file, report,
                   outbox, now, loaded>>

\* onTestEnd scoring the test on its history with the outcome of this run
\* already appended
OnTestEndCurrentIncluded(test, status, duration, retry) ==
    /\ pc = "running"
    /\ Len(results) < MaxResults
    /\ LET testId == GetTestId(test)
           historyEntries == IF testId \in DOMAIN history.tests
                             THEN history.tests[testId] ELSE <<>>
           testData == [testId |-> testId, title |-> test.title, file |-> test.file,
                        status |-> status, duration |-> duration, retry |-> retry,
                        history |-> historyEntries]
           scored == Analyse([testData EXCEPT !.history =
                                  Append(historyEntries, HistoryEntry(testData, now))],
                             options.performanceThreshold)
       IN  results' = Append(results, [scored EXCEPT !.history = historyEntries])
    /\ UNCHANGED <<cli, peer, pc, options, history, currentRun, startTime, file, report,
                   outbox, now, loaded>>

\* onTestEnd (lines 170-256)
OnTestEnd(test, status, duration, retry) ==
    /\ pc = "running"
    /\ Len(results) < MaxResults
    /\ LET testId == GetTestId(test)
           historyEntries == IF testId \in DOMAIN history.tests
                             THEN history.tests[testId] ELSE <<>>
           testData == [testId |-> testId, title |-> test.title, file |-> test.file,
                        status |-> status, duration |-> duration, retry |-> retry,
                        history |-> historyEntries]
       IN  results' = Append(results, Analyse(testData, options.performanceThreshold))
    /\ UNCHANGED <<cli, peer, pc, options, history, currentRun, startTime, file, report,
                   outbox, now, loaded>>

\* The number of earlier notifications of this run that carry the identity
\* testId: the driver numbers the attempts of a test 0, 1, 2, ... in
\* result.retry.
Attempts(testId) == Count(results, LAMBDA r : r.testId = testId)

\* addAiSuggestions (lines 499-531), the first step of onEnd: one request per
\* failed test when an API key is in the environment; a request that fails is
\* caught and leaves the test without a suggestion.  ok is the set of
\* positions in results whose request succeeds.
AddAiSuggestions(hasKey, ok) ==
    /\ pc = "running"
    /\ LET failedTests == {i \in 1..Len(results) : IsFailure(results[i])}
       IN  /\ ok \subseteq failedTests
           /\ (~hasKey) => ok = {}
           /\ results' = [i \in 1..Len(results) |->
                             IF i \in ok
                             THEN results[i] @@ [aiSuggestion |-> "suggestion"]
                             ELSE results[i]]
           /\ outbox' = IF hasKey
                        THEN outbox \o [j \in 1..Cardinality(failedTests) |->
                                 LET i == CHOOSE k \in failedTests :
                                            Cardinality({m \in failedTests : m < k}) = j - 1
                                 IN  [to |-> "ai", testId |-> results[i].testId,
                                      ok |-> i \in ok]]
                        ELSE outbox
    /\ now' = now + 1
    /\ pc' = "suggested"
    /\ UNCHANGED <<cli, peer, options, history, currentRun, startTime, file, report, loaded>>

\* the report step saving the history file as well
WriteReportPersisting(written) ==
    /\ pc = "suggested"
    /\ IF written
       THEN /\ report' = GenerateHtml(history, results, now - startTime)
            /\ file' = Json(history)
            /\ pc' = "reported"
       ELSE /\ report' = report
            /\ file' = file
            /\ pc' = "reportWriteFailed"
    /\ UNCHANGED <<cli, peer, options, results, history, currentRun, startTime, outbox,
                   now, loaded>>

\* the report step with the write error caught: onEnd goes on without a
\* report
WriteReportSwallowing(written) ==
    /\ pc = "suggested"
    /\ report' = IF written THEN GenerateHtml(history, results, now - startTime)
                 ELSE report
    /\ pc' = "reported"
    /\ UNCHANGED <<cli, peer, options, results, history, currentRun, startTime, file, outbox,
                   now, loaded>>

\* onEnd building the report after updateHistory has pushed the summary of
\* the current run
WriteReportFromRecorded(written) ==
    /\ pc = "suggested"
    /\ IF written
       THEN /\ report' = GenerateHtml(UpdateHistory(history, results, currentRun, now,
                                                    now - startTime,
                                                    options.maxHistoryRuns),
                                      results, now - startTime)
            /\ pc' = "reported"
       ELSE /\ report' = report
            /\ pc' = "reportWriteFailed"
    /\ UNCHANGED <<cli, peer, options, results, history, currentRun, startTime, file,
                   outbox, now, loaded>>

\* onEnd, lines 263-266: generateHtml and the write of the report file.
\* A failed fs.writeFileSync throws out of onEnd.
WriteReport(written) ==
    /\ pc = "suggested"
    /\ IF written
       THEN /\ report' = GenerateHtml(history, results, now - startTime)
            /\ pc' = "reported"
       ELSE /\ report' = report
            /\ pc' = "reportWriteFailed"
    /\ UNCHANGED <<cli, peer, options, results, history, currentRun, startTime, file, outbox,
                   now, loaded>>

\* updateHistory reading the file again before the record, so that what
\* another process has persisted since onBegin is kept
OnEndUpdateHistoryReloading(outcome) ==
    /\ pc = "reported"
    /\ history' = UpdateHistory(LoadHistory(file, history).history, results,
                                currentRun, now, now - startTime,
                                options.maxHistoryRuns)
    /\ file' = CASE outcome = "ok" -> Json(history')
                 [] outcome = "open" -> file
                 [] outcome = "write" -> Corrupt
    /\ pc' = IF outcome = "ok" THEN "recorded" ELSE "historyWriteFailed"
    /\ UNCHANGED <<cli, peer, options, results, currentRun, startTime, report, outbox,
                   now, loaded>>

\* onEnd, line 269: updateHistory, which ends with the write of the history
\* file (lines 349-350).  fs.writeFileSync opens the file truncating it and
\* then writes: "open" fails before the file is touched, "write" fails after
\* the truncation.  The in-memory document is updated before the write, so
\* it changes whatever the write does.  (The push also shows through the
\* history field of the results that share the array; nothing reads that
\* field after the report is written, and results is left as it is.)
WriteOutcomes == {"ok", "open", "write"}

OnEndUpdateHistory(outcome) ==
    /\ pc = "reported"
    /\ history' = UpdateHistory(history, results, currentRun, now, now - startTime,
                                options.maxHistoryRuns)
    /\ file' = CASE outcome = "ok" -> Json(history')
                 [] outcome = "open" -> file
                 [] outcome = "write" -> Corrupt
    /\ pc' = IF outcome = "ok" THEN "recorded" ELSE "historyWriteFailed"
    /\ UNCHANGED <<cli, peer, options, results, currentRun, startTime, report, outbox, now,
                   loaded>>

\* sendWebhookNotifications without the try/catch around the Slack post: a
\* rejected post leaves the method, and onEnd, before the Teams post
SendWebhookNotificationsUncaught(slackWebhook, teamsWebhook, slackOk, teamsOk) ==
    /\ pc = "recorded"
    /\ LET failed == Count(results, IsFailure)
           failedTests == SubSeq(SelectSeq(results, IsFailure), 1,
                                 IF failed < 5 THEN failed ELSE 5)
           titles == [i \in 1..Len(failedTests) |-> failedTests[i].title]
           slack == IF slackWebhook
                    THEN <<[to |-> "slack", failedTests |-> titles, ok |-> slackOk]>>
                    ELSE <<>>
           teams == IF teamsWebhook /\ slackOk
                    THEN <<[to |-> "teams", failedTests |-> titles, ok |-> teamsOk]>>
                    ELSE <<>>
       IN  /\ (~slackWebhook) => slackOk
           /\ (~teamsWebhook) => teamsOk
           /\ outbox' = IF failed = 0 THEN outbox ELSE outbox \o slack \o teams
           /\ pc' = IF failed > 0 /\ ~slackOk THEN "webhookFailed" ELSE "done"
    /\ UNCHANGED <<cli, peer, options, results, history, currentRun, startTime, file, report,
                   now, loaded>>

\* sendWebhookNotifications without the slice(0, 5): every failing test is
\* listed
SendWebhookNotificationsUnlimited(slackWebhook, teamsWebhook, slackOk, teamsOk) ==
    /\ pc = "recorded"
    /\ LET failed == Count(results, IsFailure)
           failedTests == SelectSeq(results, IsFailure)
           titles == [i \in 1..Len(failedTests) |-> failedTests[i].title]
           slack == IF slackWebhook
                    THEN <<[to |-> "slack", failedTests |-> titles, ok |-> slackOk]>>
                    ELSE <<>>
           teams == IF teamsWebhook
                    THEN <<[to |-> "teams", failedTests |-> titles, ok |-> teamsOk]>>
                    ELSE <<>>
       IN  /\ (~slackWebhook) => slackOk
           /\ (~teamsWebhook) => teamsOk
           /\ outbox' = IF failed = 0 THEN outbox ELSE outbox \o slack \o teams
    /\ pc' = "done"
    /\ UNCHANGED <<cli, peer, options, results, history, currentRun, startTime, file,
                   report, now, loaded>>

\* sendWebhookNotifications (lines 357-425), the last step of onEnd.  The
\* options slackWebhook and teamsWebhook are set by the constructor, never
\* change and are read only here, so their values are drawn here.
SendWebhookNotifications(slackWebhook, teamsWebhook, slackOk, teamsOk) ==
    /\ pc = "recorded"
    /\ LET failed == Count(results, IsFailure)
           failedTests == SubSeq(SelectSeq(results, IsFailure), 1,
                                 IF failed < 5 THEN failed ELSE 5)
           titles == [i \in 1..Len(failedTests) |-> failedTests[i].title]
           slack == IF slackWebhook
                    THEN <<[to |-> "slack", failedTests |-> titles, ok |-> slackOk]>>
                    ELSE <<>>
           teams == IF teamsWebhook
                    THEN <<[to |-> "teams", failedTests |-> titles, ok |-> teamsOk]>>
                    ELSE <<>>
       IN  /\ (~slackWebhook) => slackOk
           /\ (~teamsWebhook) => teamsOk
           /\ outbox' = IF failed = 0 THEN outbox ELSE outbox \o slack \o teams
    /\ pc' = "done"
    /\ UNCHANGED <<cli, peer, options, results, history, currentRun, startTime, file, report,
                   now, loaded>>

Next ==
    \/ \E n \in Caps : Construct(n)
    \/ OnBegin
    \/ \E t \in TestCases, s \in RunStatuses, d \in RunDurations :
          OnTestEnd(t, s, d, Attempts(GetTestId(t)))
    \/ \E hasKey \in BOOLEAN, ok \in SUBSET (1..MaxResults) : AddAiSuggestions(hasKey, ok)
    \/ \E written \in BOOLEAN : WriteReport(written)
    \/ \E outcome \in WriteOutcomes : OnEndUpdateHistory(outcome)
    \/ \E sw, tw, sok, tok \in BOOLEAN : SendWebhookNotifications(sw, tw, sok, tok)

Spec == Init /\ [][Next]_vars

----------------------------------------------------------------------------
(* The analysis of one notification against a bounded history: the history *)
(* file holds, for the test t1, p passed, f failed and s skipped entries   *)
(* (skipped ones first or last), the reporter is constructed with the      *)
(* default options, loads the file and receives one notification.          *)

Repeat(e, n) == [i \in 1..n |-> e]

AnalysisHistories ==
    { IF skippedFirst
      THEN Repeat(Entry(FALSE, TRUE, 0, 0), s) \o Repeat(Entry(TRUE, FALSE, d, 0), p)
              \o Repeat(Entry(FALSE, FALSE, d, 0), f)
      ELSE Repeat(Entry(FALSE, FALSE, d, 0), f) \o Repeat(Entry(TRUE, FALSE, d, 0), p)
              \o Repeat(Entry(FALSE, TRUE, 0, 0), s) :
      <<p, f, s>> \in {c \in (0..MaxHistLen) \X (0..MaxHistLen) \X (0..MaxHistLen) :
                          c[1] + c[2] + c[3] <= MaxHistLen},
      d \in Durations, skippedFirst \in BOOLEAN }

InitAnalysis ==
    /\ pc = "constructed"
    /\ options = [maxHistoryRuns |-> DefaultMaxHistoryRuns,
                  performanceThreshold |-> DefaultThreshold]
    /\ results = <<>>
    /\ history = EmptyHistory
    /\ currentRun = NoRun
    /\ startTime = 0
    /\ \E h \in AnalysisHistories :
          file = Json([runs |-> <<>>,
                       tests |-> IF h = <<>> THEN EmptyMap
                                 ELSE Put(EmptyMap, "a.spec.ts::t1", h),
                       summaries |-> <<>>])
    /\ report = NoReport
    /\ outbox = <<>>
    /\ now = FirstRunTime
    /\ loaded = NoLoad
    /\ cli = NoCli
    /\ peer = NoPeer

NextAnalysis ==
    \/ OnBegin
    \/ /\ results = <<>>
       /\ \E t \in TestCases, s \in Statuses, d \in Durations : OnTestEnd(t, s, d, 0)

SpecAnalysis == InitAnalysis /\ [][NextAnalysis]_vars

----------------------------------------------------------------------------
(* Two runs on one history file: run A starts without a history file, its  *)
(* tests pass or fail, and the next day a new reporter process (run B)     *)
(* starts on the file run A wrote.  No API key and no webhook is           *)
(* configured and both writes of onEnd succeed.                            *)

RunAStatuses == {"passed", "failed"}

InitTwoRuns ==
    /\ pc = "constructed"
    /\ options = [maxHistoryRuns |-> DefaultMaxHistoryRuns,
                  performanceThreshold |-> DefaultThreshold]
    /\ results = <<>>
    /\ history = EmptyHistory
    /\ currentRun = NoRun
    /\ startTime = 0
    /\ file = Missing
    /\ report = NoReport
    /\ outbox = <<>>
    /\ now = FirstRunTime
    /\ loaded = NoLoad
    /\ cli = NoCli
    /\ peer = NoPeer

\* the process of run A has ended; the next day a new process constructs its
\* reporter with the same options (lines 147-156)
NextDay ==
    /\ pc = "done"
    /\ loaded.from = Missing
    /\ pc' = "constructed"
    /\ results' = <<>>
    /\ history' = EmptyHistory
    /\ currentRun' = NoRun
    /\ startTime' = 0
    /\ report' = NoReport
    /\ outbox' = <<>>
    /\ now' = now + 1
    /\ loaded' = NoLoad
    /\ UNCHANGED <<cli, peer, options, file>>

NextTwoRuns ==
    \/ OnBegin
    \/ \E t \in TestCases, d \in RunDurations,
          s \in IF loaded.from = Missing THEN RunAStatuses ELSE Statuses :
          OnTestEnd(t, s, d, Attempts(GetTestId(t)))
    \/ AddAiSuggestions(FALSE, {})
    \/ WriteReport(TRUE)
    \/ OnEndUpdateHistory("ok")
    \/ SendWebhookNotifications(FALSE, FALSE, TRUE, TRUE)
    \/ NextDay

SpecTwoRuns == InitTwoRuns /\ [][NextTwoRuns]_vars

----------------------------------------------------------------------------
(* The steps of onEnd on a run of many results: the reporter has loaded a  *)
(* history in which t1 failed 3 times of 10 at the duration of this run    *)
(* and t2 failed 2 times of 10 in half of it, and has been notified of p   *)
(* passed results, then f failed or timed out ones, then o skipped or      *)
(* interrupted ones, for t1 and t2 in turn.  No API key and no webhook is  *)
(* configured, both writes succeed.                                        *)

SummaryFile ==
    Json([runs |-> <<>>,
          tests |-> Put(Put(EmptyMap, "a.spec.ts::t1",
                            Repeat(Entry(FALSE, FALSE, 10, 2), 3)
                                \o Repeat(Entry(TRUE, FALSE, 10, 2), 7)),
                        "a.spec.ts::t2",
                        Repeat(Entry(FALSE, FALSE, 5, 2), 2)
                            \o Repeat(Entry(TRUE, FALSE, 5, 2), 8)),
          summaries |-> <<>>])

SummaryResults(p, f, o) ==
    LET statuses == Repeat("passed", p)
                    \o [j \in 1..f |-> IF j % 2 = 1 THEN "failed" ELSE "timedOut"]
                    \o [j \in 1..o |-> IF j % 2 = 1 THEN "skipped" ELSE "interrupted"]
    IN  [i \in 1..Len(statuses) |->
            LET test == [file |-> "a.spec.ts",
                         title |-> IF i % 2 = 1 THEN "t1" ELSE "t2"]
            IN  Analyse([testId |-> GetTestId(test), title |-> test.title,
                         file |-> test.file, status |-> statuses[i],
                         duration |-> 10, retry |-> (i - 1) \div 2,
                         history |-> SummaryFile.doc.tests[GetTestId(test)]],
                        DefaultThreshold)]

InitSummary ==
    /\ pc = "running"
    /\ options = [maxHistoryRuns |-> DefaultMaxHistoryRuns,
                  performanceThreshold |-> DefaultThreshold]
    /\ \E p \in 0..MaxCounted, f \in 0..MaxCounted, o \in 0..MaxOthers :
          /\ p + f <= MaxCounted
          /\ results = SummaryResults(p, f, o)
    /\ history = SummaryFile.doc
    /\ currentRun = [runId |-> FirstRunTime, timestamp |-> FirstRunTime]
    /\ startTime = FirstRunTime
    /\ file = SummaryFile
    /\ report = NoReport
    /\ outbox = <<>>
    /\ now = FirstRunTime
    /\ loaded = [from |-> SummaryFile, doc |-> SummaryFile.doc]
    /\ cli = NoCli
    /\ peer = NoPeer

NextSummary ==
    \/ AddAiSuggestions(FALSE, {})
    \/ WriteReport(TRUE)
    \/ OnEndUpdateHistory("ok")
    \/ SendWebhookNotifications(FALSE, FALSE, TRUE, TRUE)

SpecSummary == InitSummary /\ [][NextSummary]_vars

----------------------------------------------------------------------------
(* The performance analysis of one notification: the history file holds,   *)
(* for the test t1, s skipped entries, k passed entries of one duration    *)
(* and m failed entries of another; the reporter is constructed with the   *)
(* default options, loads the file and receives one notification.          *)

TrendDurations == {d \in 0..MaxDuration : d % 5 = 0}

TrendHistories ==
    { Repeat(Entry(FALSE, TRUE, 0, 0), s) \o Repeat(Entry(TRUE, FALSE, d1, 0), k)
          \o Repeat(Entry(FALSE, FALSE, d2, 0), m) :
      k \in 0..MaxTrendLen, m \in 0..MaxTrendLen, s \in 0..1,
      d1 \in TrendDurations, d2 \in TrendDurations }

InitTrend ==
    /\ pc = "constructed"
    /\ options = [maxHistoryRuns |-> DefaultMaxHistoryRuns,
                  performanceThreshold |-> DefaultThreshold]
    /\ results = <<>>
    /\ history = EmptyHistory
    /\ currentRun = NoRun
    /\ startTime = 0
    /\ \E h \in TrendHistories :
          file = Json([runs |-> <<>>,
                       tests |-> IF h = <<>> THEN EmptyMap
                                 ELSE Put(EmptyMap, "a.spec.ts::t1", h),
                       summaries |-> <<>>])
    /\ report = NoReport
    /\ outbox = <<>>
    /\ now = FirstRunTime
    /\ loaded = NoLoad
    /\ cli = NoCli
    /\ peer = NoPeer

NextTrend ==
    \/ OnBegin
    \/ /\ results = <<>>
       /\ \E t \in TestCases, s \in Statuses, d \in 0..MaxDuration : OnTestEnd(t, s, d, 0)

SpecTrend == InitTrend /\ [][NextTrend]_vars

----------------------------------------------------------------------------
(* RetryAnalyzer (src/unnamed/part_001) *)

DefaultRetryFailureThreshold == 3

\* calculateRetryInfo with failedRetries for every outcome that did not pass
CalculateRetryInfoNotPassed(test, testHistory, retryFailureThreshold) ==
    LET totalRetries == test.retry
        historyWithRetries ==
            SelectSeq(testHistory, LAMBDA h : "retry" \in DOMAIN h /\ h.retry > 0)
    IN  [totalRetries |-> totalRetries,
         passedOnRetry |-> IF test.status = "passed" /\ totalRetries > 0
                           THEN totalRetries ELSE -1,
         failedRetries |-> IF test.status # "passed" THEN totalRetries ELSE 0,
         retryPattern |-> IF totalRetries > 0
                          THEN Repeat(FALSE, totalRetries) \o <<test.status = "passed">>
                          ELSE <<test.status = "passed">>,
         needsAttention |->
             \/ totalRetries >= retryFailureThreshold
             \/ /\ Len(testHistory) > 0
                /\ 2 * Len(historyWithRetries) > Len(testHistory)]

\* calculateRetryInfo with one pattern entry per retry and none for the
\* first attempt
CalculateRetryInfoPerRetry(test, testHistory, retryFailureThreshold) ==
    LET totalRetries == test.retry
        historyWithRetries ==
            SelectSeq(testHistory, LAMBDA h : "retry" \in DOMAIN h /\ h.retry > 0)
    IN  [totalRetries |-> totalRetries,
         passedOnRetry |-> IF test.status = "passed" /\ totalRetries > 0
                           THEN totalRetries ELSE -1,
         failedRetries |-> IF test.status = "failed" \/ test.status = "timedOut"
                           THEN totalRetries ELSE 0,
         retryPattern |-> IF totalRetries > 0
                          THEN Repeat(FALSE, totalRetries - 1) \o <<test.status = "passed">>
                          ELSE <<test.status = "passed">>,
         needsAttention |->
             \/ totalRetries >= retryFailureThreshold
             \/ /\ Len(testHistory) > 0
                /\ 2 * Len(historyWithRetries) > Len(testHistory)]

\* calculateRetryInfo (lines 29-61).  `h.retry && h.retry > 0` is false for
\* an entry without the field retry.  historyWithRetries.length /
\* history.length > 0.5 is 2 * historyWithRetries.length > history.length:
\* 0.5 is a double and a quotient above it is so by at least 1 / (2 * length).
CalculateRetryInfo(test, testHistory, retryFailureThreshold) ==
    LET totalRetries == test.retry
        historyWithRetries ==
            SelectSeq(testHistory, LAMBDA h : "retry" \in DOMAIN h /\ h.retry > 0)
    IN  [totalRetries |-> totalRetries,
         passedOnRetry |-> IF test.status = "passed" /\ totalRetries > 0
                           THEN totalRetries ELSE -1,
         failedRetries |-> IF test.status = "failed" \/ test.status = "timedOut"
                           THEN totalRetries ELSE 0,
         retryPattern |-> IF totalRetries > 0
                          THEN Repeat(FALSE, totalRetries) \o <<test.status = "passed">>
                          ELSE <<test.status = "passed">>,
         needsAttention |->
             \/ totalRetries >= retryFailureThreshold
             \/ /\ Len(testHistory) > 0
                /\ 2 * Len(historyWithRetries) > Len(testHistory)]

\* The entries the record step of the reporter leaves for a test after n
\* runs in each of which the test passed on retry number retry.
RecordedFrom(retry, n) ==
    LET past == [testId |-> "a.spec.ts::t1", status |-> "passed", duration |-> 10,
                 retry |-> retry]
        tests == RecordResults(EmptyMap, Repeat(past, n), 0, DefaultMaxHistoryRuns)
    IN  IF n = 0 THEN <<>> ELSE tests["a.spec.ts::t1"]

\* entries that carry the field retry the analyzer reads: k with retry 1,
\* then m with retry 0
EntriesWithRetry(k, m) ==
    Repeat(Entry(TRUE, FALSE, 10, 0) @@ [retry |-> 1], k)
        \o Repeat(Entry(TRUE, FALSE, 10, 0) @@ [retry |-> 0], m)

RetryHistories ==
    {RecordedFrom(r, n) : r \in 0..MaxRetry, n \in 0..MaxRetryHist}
        \cup {EntriesWithRetry(k, m) : k \in 0..MaxRetryHist, m \in 0..MaxRetryHist}

RetryThresholds == (0..MaxRetry) \cup {DefaultRetryFailureThreshold}

\* A RetryAnalyzer constructed with a threshold (kept in options), and the
\* outcome of a test with its history, not yet analysed.
InitRetry ==
    /\ pc = "running"
    /\ \E th \in RetryThresholds :
          options = [maxHistoryRuns |-> DefaultMaxHistoryRuns,
                     performanceThreshold |-> DefaultThreshold,
                     retryFailureThreshold |-> th]
    /\ \E h \in RetryHistories, s \in Statuses, r \in 0..MaxRetry :
          /\ history = [runs |-> <<>>,
                        tests |-> IF h = <<>> THEN EmptyMap
                                  ELSE Put(EmptyMap, "a.spec.ts::t1", h),
                        summaries |-> <<>>]
          /\ results = <<[testId |-> "a.spec.ts::t1", title |-> "t1",
                          file |-> "a.spec.ts", status |-> s, duration |-> 10,
                          retry |-> r, history |-> h]>>
    /\ currentRun = [runId |-> FirstRunTime, timestamp |-> FirstRunTime]
    /\ startTime = FirstRunTime
    /\ file = Json(history)
    /\ report = NoReport
    /\ outbox = <<>>
    /\ now = FirstRunTime
    /\ loaded = [from |-> file, doc |-> history]
    /\ cli = NoCli
    /\ peer = NoPeer

\* analyze (lines 18-21)
RetryAnalyze(i) ==
    /\ pc = "running"
    /\ i \in 1..Len(results)
    /\ "retryInfo" \notin DOMAIN results[i]
    /\ results' = [results EXCEPT ![i] =
                      results[i] @@
                      [retryInfo |-> CalculateRetryInfo(results[i], results[i].history,
                                                        options.retryFailureThreshold)]]
    /\ UNCHANGED <<cli, peer, pc, options, history, currentRun, startTime, file, report,
                   outbox, now, loaded>>

NextRetry == \E i \in 1..MaxResults : RetryAnalyze(i)

SpecRetry == InitRetry /\ [][NextRetry]_vars

----------------------------------------------------------------------------
(* onEnd with its environment: the reporter is constructed with or without *)
(* a Slack and a Teams webhook and has been notified of a few results (as  *)
(* drawn by SummaryResults); every request and every write of onEnd may    *)
(* fail.                                                                   *)

InitOnEnd ==
    /\ pc = "running"
    /\ \E slackWebhook \in BOOLEAN, teamsWebhook \in BOOLEAN :
          options = [maxHistoryRuns |-> DefaultMaxHistoryRuns,
                     performanceThreshold |-> DefaultThreshold,
                     slackWebhook |-> slackWebhook,
                     teamsWebhook |-> teamsWebhook]
    /\ \E p \in 0..MaxOnEndResults, f \in 0..MaxOnEndResults, o \in 0..MaxOnEndResults :
          /\ p + f + o <= MaxOnEndResults
          /\ results = SummaryResults(p, f, o)
    /\ history = SummaryFile.doc
    /\ currentRun = [runId |-> FirstRunTime, timestamp |-> FirstRunTime]
    /\ startTime = FirstRunTime
    /\ file = SummaryFile
    /\ report = NoReport
    /\ outbox = <<>>
    /\ now = FirstRunTime
    /\ loaded = [from |-> SummaryFile, doc |-> SummaryFile.doc]
    /\ cli = NoCli
    /\ peer = NoPeer

NextOnEnd ==
    \/ \E hasKey \in BOOLEAN, ok \in SUBSET (1..MaxOnEndResults) : AddAiSuggestions(hasKey, ok)
    \/ \E written \in BOOLEAN : WriteReport(written)
    \/ \E outcome \in WriteOutcomes : OnEndUpdateHistory(outcome)
    \/ \E slackOk \in BOOLEAN, teamsOk \in BOOLEAN :
          SendWebhookNotifications(options.slackWebhook, options.teamsWebhook,
                                   slackOk, teamsOk)

SpecOnEnd == InitOnEnd /\ [][NextOnEnd]_vars

----------------------------------------------------------------------------
(* onEnd on a history that earlier runs and merges have filled: the file   *)
(* holds no summaries field, or 0 to MaxSummaries summaries and as many    *)
(* run records; the reporter has loaded it and has been notified of a few  *)
(* results, with maxHistoryRuns left at its default or set to MaxCap; its  *)
(* environment is that of SpecOnEnd.                                       *)

ChartSummaries(k) == [i \in 1..k |-> OldSummary(i - 1, i, k - i)]

ChartRuns(k) == [i \in 1..k |-> [runId |-> i - 1, timestamp |-> i - 1]]

ChartFiles ==
    { Json([runs |-> <<>>, tests |-> SummaryFile.doc.tests]) }
    \cup { Json([runs |-> ChartRuns(k), tests |-> SummaryFile.doc.tests,
                 summaries |-> ChartSummaries(k)]) : k \in 0..MaxSummaries }

InitChart ==
    /\ pc = "running"
    /\ \E slackWebhook \in BOOLEAN, teamsWebhook \in BOOLEAN,
          maxHistoryRuns \in {MaxCap, DefaultMaxHistoryRuns} :
          options = [maxHistoryRuns |-> maxHistoryRuns,
                     performanceThreshold |-> DefaultThreshold,
                     slackWebhook |-> slackWebhook,
                     teamsWebhook |-> teamsWebhook]
    /\ \E p \in 0..MaxChartResults, f \in 0..MaxChartResults, o \in 0..MaxChartResults :
          /\ p + f + o <= MaxChartResults
          /\ results = SummaryResults(p, f, o)
    /\ file \in ChartFiles
    /\ history = file.doc
    /\ currentRun = [runId |-> FirstRunTime, timestamp |-> FirstRunTime]
    /\ startTime = FirstRunTime
    /\ report = NoReport
    /\ outbox = <<>>
    /\ now = FirstRunTime
    /\ loaded = [from |-> file, doc |-> file.doc]
    /\ cli = NoCli
    /\ peer = NoPeer

NextChart ==
    \/ \E hasKey \in BOOLEAN, ok \in SUBSET (1..MaxChartResults) : AddAiSuggestions(hasKey, ok)
    \/ \E written \in BOOLEAN : WriteReport(written)
    \/ \E outcome \in WriteOutcomes : OnEndUpdateHistory(outcome)
    \/ \E slackOk \in BOOLEAN, teamsOk \in BOOLEAN :
          SendWebhookNotifications(options.slackWebhook, options.teamsWebhook,
                                   slackOk, teamsOk)

SpecChart == InitChart /\ [][NextChart]_vars

----------------------------------------------------------------------------
(* The merge tool (merge-history.ts).  cli is its process: the files on    *)
(* disk, the arguments of the command, and once it has run its exit code   *)
(* and whether it called mergeHistories.  Strings of the command line are  *)
(* tokens; timestamps are integers as in the reporter.                     *)

HelpFlags == {"-h", "--help"}
OutputFlags == {"-o", "--output"}
MaxRunsFlags == {"-n", "--max-runs"}

\* arg.startsWith('-') (line 40), on the tokens of the model
StartsWithDash(arg) == arg \in HelpFlags \cup OutputFlags \cup MaxRunsFlags \cup {"-x"}

\* args[++i] past the end of the array (lines 37, 39); the initial value of
\* outputFile (line 30); parseInt of a string that is no number (line 39)
Undefined == "<undefined>"
Null == "<null>"

\* the numbers of the command line: a one-element sequence, NaN the empty one
NaN == <<>>
Number(n) == <<n>>

Numerals == <<"1", "2", "3", "4", "5", "6", "7", "8", "9">>

\* parseInt(s, 10) (line 39)
ParseInt(s) ==
    IF \E n \in 1..Len(Numerals) : Numerals[n] = s
    THEN Number(CHOOSE n \in 1..Len(Numerals) : Numerals[n] = s)
    ELSE NaN

\* let maxRuns = 10 (line 31)
DefaultMaxRuns == 10

\* the loop over the arguments (lines 33-43), from position i on: -o and -n
\* take the next argument whatever it is, an argument that does not start
\* with a dash is a history file, any other argument is ignored
RECURSIVE ParseArgs(_, _, _)
ParseArgs(args, i, parsed) ==
    IF i > Len(args) THEN parsed
    ELSE LET value == IF i + 1 <= Len(args) THEN args[i + 1] ELSE Undefined
         IN  IF args[i] \in OutputFlags
             THEN ParseArgs(args, i + 2, [parsed EXCEPT !.outputFile = value])
             ELSE IF args[i] \in MaxRunsFlags
             THEN ParseArgs(args, i + 2, [parsed EXCEPT !.maxRuns = ParseInt(value)])
             ELSE IF ~StartsWithDash(args[i])
             THEN ParseArgs(args, i + 1,
                            [parsed EXCEPT !.historyFiles = Append(@, args[i])])
             ELSE ParseArgs(args, i + 1, parsed)

\* the command line as main has parsed it when it checks it (lines 29-43)
ParseCommandLine(args) ==
    ParseArgs(args, 1, [historyFiles |-> <<>>, outputFile |-> Null,
                        maxRuns |-> Number(DefaultMaxRuns)])

\* args.includes('-h') || args.includes('--help') (line 24)
HelpRequested(args) == \E i \in 1..Len(args) : args[i] \in HelpFlags

\* !outputFile (line 51)
Falsy(outputFile) == outputFile \in {Null, Undefined, ""}

\* the elements of s with a runId no earlier element has
RECURSIVE DedupByRunId(_)
DedupByRunId(s) ==
    IF s = <<>> THEN <<>>
    ELSE LET kept == DedupByRunId(SubSeq(s, 1, Len(s) - 1))
             x == s[Len(s)]
         IN  IF \E j \in 1..Len(kept) : kept[j].runId = x.runId THEN kept
             ELSE Append(kept, x)

\* the elements of s no earlier element equals
RECURSIVE DedupEntries(_)
DedupEntries(s) ==
    IF s = <<>> THEN <<>>
    ELSE LET kept == DedupEntries(SubSeq(s, 1, Len(s) - 1))
             x == s[Len(s)]
         IN  IF \E j \in 1..Len(kept) : kept[j] = x THEN kept ELSE Append(kept, x)

\* s sorted by timestamp ascending, elements of one timestamp in the order
\* they have in s
RECURSIVE SortByTimestamp(_)
SortByTimestamp(s) ==
    IF s = <<>> THEN <<>>
    ELSE LET sorted == SortByTimestamp(SubSeq(s, 1, Len(s) - 1))
             x == s[Len(s)]
             k == Cardinality({j \in 1..Len(sorted) : sorted[j].timestamp <= x.timestamp})
         IN  SubSeq(sorted, 1, k) \o <<x>> \o SubSeq(sorted, k + 1, Len(sorted))

\* s truncated to its last n elements; with a maxRuns that is no number
\* nothing is truncated
Truncated(s, n) ==
    IF n = NaN \/ Len(s) <= n[1] THEN s ELSE SubSeq(s, Len(s) - n[1] + 1, Len(s))

RECURSIVE Concat(_)
Concat(ss) == IF ss = <<>> THEN <<>> ELSE ss[1] \o Concat(Tail(ss))

\* mergeHistories applied to the documents read, in the order of the command
\* line: runs is the union deduplicated by runId; the sequence of a test is
\* the union across the inputs sorted by timestamp ascending and truncated
\* to the last maxHistoryRuns; summaries is the union deduplicated by
\* runId, sorted by timestamp ascending and truncated to the last
\* maxHistoryRuns.  Ties keep the order of the inputs.  The union of the
\* entries of a test keeps an entry once (distinct) or as often as it
\* occurs in the inputs.
MergeHistories(docs, maxHistoryRuns, distinct) ==
    LET runsOf(d) == IF "runs" \in DOMAIN d THEN d.runs ELSE <<>>
        summariesOf(d) == IF "summaries" \in DOMAIN d THEN d.summaries ELSE <<>>
        entriesOf(d, id) == IF id \in DOMAIN d.tests THEN d.tests[id] ELSE <<>>
        ids == UNION {DOMAIN docs[i].tests : i \in 1..Len(docs)}
        union(id) == Concat([i \in 1..Len(docs) |-> entriesOf(docs[i], id)])
    IN  [runs |-> DedupByRunId(Concat([i \in 1..Len(docs) |-> runsOf(docs[i])])),
         tests |-> [id \in ids |->
                       Truncated(SortByTimestamp(IF distinct THEN DedupEntries(union(id))
                                                 ELSE union(id)),
                                 maxHistoryRuns)],
         summaries |-> Truncated(SortByTimestamp(DedupByRunId(
                                     Concat([i \in 1..Len(docs) |-> summariesOf(docs[i])]))),
                                 maxHistoryRuns)]

\* main testing outputFile === null instead of !outputFile: an output flag
\* without a value, or with an empty one, goes through to mergeHistories
MainNullCheck(args, distinct) ==
    /\ cli.pc = "ready"
    /\ LET parsed == ParseCommandLine(args)
           onDisk == SelectSeq(parsed.historyFiles, LAMBDA f : f \in DOMAIN cli.disk)
           merged == MergeHistories([i \in 1..Len(onDisk) |-> cli.disk[onDisk[i]]],
                                    parsed.maxRuns, distinct)
       IN  cli' =
             IF args = <<>> \/ HelpRequested(args)
             THEN [cli EXCEPT !.pc = "exited", !.args = args, !.exitCode = 0,
                              !.called = FALSE]
             ELSE IF parsed.historyFiles = <<>> \/ parsed.outputFile = Null
             THEN [cli EXCEPT !.pc = "exited", !.args = args, !.exitCode = 1,
                              !.called = FALSE]
             ELSE [cli EXCEPT !.pc = "exited", !.args = args, !.exitCode = 0,
                              !.called = TRUE,
                              !.disk = Put(cli.disk, parsed.outputFile, merged)]
    /\ UNCHANGED <<pc, options, results, history, currentRun, startTime, file,
                   report, outbox, now, loaded, peer>>

\* main (lines 21-59), run by a new process on the arguments args.  A
\* history file that is not on disk is left out of the merge.
Main(args, distinct) ==
    /\ cli.pc = "ready"
    /\ LET parsed == ParseCommandLine(args)
           onDisk == SelectSeq(parsed.historyFiles, LAMBDA f : f \in DOMAIN cli.disk)
           merged == MergeHistories([i \in 1..Len(onDisk) |-> cli.disk[onDisk[i]]],
                                    parsed.maxRuns, distinct)
       IN  cli' =
             IF args = <<>> \/ HelpRequested(args)
             THEN [cli EXCEPT !.pc = "exited", !.args = args, !.exitCode = 0,
                              !.called = FALSE]
             ELSE IF parsed.historyFiles = <<>> \/ Falsy(parsed.outputFile)
             THEN [cli EXCEPT !.pc = "exited", !.args = args, !.exitCode = 1,
                              !.called = FALSE]
             ELSE [cli EXCEPT !.pc = "exited", !.args = args, !.exitCode = 0,
                              !.called = TRUE,
                              !.disk = Put(cli.disk, parsed.outputFile, merged)]
    /\ UNCHANGED <<pc, options, results, history, currentRun, startTime, file,
                   report, outbox, now, loaded, peer>>

\* the reporter's variables while only the merge tool runs
NoReporter ==
    /\ pc = "idle"
    /\ options = [maxHistoryRuns |-> DefaultMaxHistoryRuns,
                  performanceThreshold |-> DefaultThreshold]
    /\ results = <<>>
    /\ history = EmptyHistory
    /\ currentRun = NoRun
    /\ startTime = 0
    /\ file = Missing
    /\ report = NoReport
    /\ outbox = <<>>
    /\ now = FirstRunTime
    /\ loaded = NoLoad
    /\ peer = NoPeer

----------------------------------------------------------------------------
(* The merge tool on any command line of up to MaxArgs arguments, with two *)
(* history files on disk.                                                  *)

CliTokens ==
    HelpFlags \cup OutputFlags \cup MaxRunsFlags
        \cup {"-x", "a.json", "b.json", "out.json", "", "2"}

RECURSIVE ArgLists(_)
ArgLists(n) ==
    IF n = 0 THEN {<<>>}
    ELSE ArgLists(n - 1)
            \cup {Append(a, t) : a \in {b \in ArgLists(n - 1) : Len(b) = n - 1},
                                 t \in CliTokens}

CliDisk ==
    Put(Put(EmptyMap, "a.json", SummaryFile.doc), "b.json", EmptyHistory)

InitCli ==
    /\ NoReporter
    /\ cli = [pc |-> "ready", disk |-> CliDisk, args |-> <<>>, exitCode |-> 0,
              called |-> FALSE]

\* the command lines of up to MaxArgs arguments
CommandLines == ArgLists(MaxArgs)

\* the user enters one command
NextCli ==
    /\ cli.pc = "ready"
    /\ \E args \in CommandLines, distinct \in BOOLEAN : Main(args, distinct)

SpecCli == InitCli /\ [][NextCli]_vars

----------------------------------------------------------------------------
(* Merge sessions: two shards have written a.json and b.json, each with    *)
(* its own run ids, a.json holding up to MaxMergeLen entries of test t1    *)
(* and b.json at most one; the user merges a.json alone, a.json with       *)
(* itself, or the two files in one order and then in the other, each       *)
(* command with its own output file and all with the same -n.              *)

MergeTimes == {1, 2}

IsSortedByTimestamp(s) ==
    \A i \in 1..(Len(s) - 1) : s[i].timestamp <= s[i + 1].timestamp

\* the sequences of up to n entries of one test, sorted by timestamp
RECURSIVE SortedEntries(_)
SortedEntries(n) ==
    IF n = 0 THEN {<<>>}
    ELSE LET shorter == SortedEntries(n - 1)
             longest == {Append(s, Entry(passed, FALSE, 10, t)) :
                            s \in {r \in shorter : Len(r) = n - 1},
                            passed \in BOOLEAN, t \in MergeTimes}
         IN  shorter \cup {s \in longest : IsSortedByTimestamp(s)}

ShardRuns ==
    [a |-> {<<>>, <<[runId |-> "a1", timestamp |-> 1]>>,
            <<[runId |-> "a1", timestamp |-> 1], [runId |-> "a2", timestamp |-> 2]>>},
     b |-> {<<>>, <<[runId |-> "b1", timestamp |-> 1]>>,
            <<[runId |-> "b1", timestamp |-> 2]>>}]

\* a history file as a shard's runs leave it
ShardFile(entries, runs) ==
    [runs |-> runs,
     tests |-> IF entries = <<>> THEN EmptyMap
               ELSE Put(EmptyMap, "a.spec.ts::t1", entries),
     summaries |-> [i \in 1..Len(runs) |->
                       [OldSummary(runs[i].timestamp, 1, 0) EXCEPT !.runId = runs[i].runId]]]

MergeSessions(opts) ==
    { << <<"a.json", "-o", "a.out">> \o opts >>,
      << <<"a.json", "a.json", "-o", "aa.out">> \o opts >>,
      << <<"a.json", "b.json", "-o", "ab.out">> \o opts,
         <<"b.json", "a.json", "-o", "ba.out">> \o opts >> }

InitMerge ==
    /\ NoReporter
    /\ \E ea \in SortedEntries(MaxMergeLen), eb \in SortedEntries(1),
          ra \in ShardRuns.a, rb \in ShardRuns.b,
          opts \in {<<>>} \cup {<<"-n", Numerals[n]>> : n \in 1..MaxMergeCap},
          distinct \in BOOLEAN :
          \E todo \in MergeSessions(opts) :
             cli = [pc |-> "ready",
                    disk |-> Put(Put(EmptyMap, "a.json", ShardFile(ea, ra)),
                                 "b.json", ShardFile(eb, rb)),
                    args |-> <<>>, exitCode |-> 0, called |-> FALSE,
                    todo |-> todo, distinct |-> distinct]

\* the process has exited and the shell is ready for the next command
NextCommand ==
    /\ cli.pc = "exited"
    /\ Len(cli.todo) > 1
    /\ cli' = [cli EXCEPT !.pc = "ready", !.todo = Tail(cli.todo)]
    /\ UNCHANGED <<pc, options, results, history, currentRun, startTime, file,
                   report, outbox, now, loaded, peer>>

\* the user enters the next command of the session, or waits for its end
NextMerge == Main(cli.todo[1], cli.distinct) \/ NextCommand

SpecMerge == InitMerge /\ [][NextMerge]_vars

----------------------------------------------------------------------------
(* The notifications of a run with many failures: the reporter is          *)
(* constructed with or without a Slack and a Teams webhook and has been    *)
(* notified of up to one passed result, up to MaxFailed failed or timed    *)
(* out ones and up to one skipped one; no API key is configured, both      *)
(* writes of onEnd succeed and each post may fail.                         *)

InitWebhooks ==
    /\ pc = "running"
    /\ \E slackWebhook \in BOOLEAN, teamsWebhook \in BOOLEAN :
          options = [maxHistoryRuns |-> DefaultMaxHistoryRuns,
                     performanceThreshold |-> DefaultThreshold,
                     slackWebhook |-> slackWebhook,
                     teamsWebhook |-> teamsWebhook]
    /\ \E p \in 0..1, f \in 0..MaxFailed, o \in 0..1 :
          results = SummaryResults(p, f, o)
    /\ history = SummaryFile.doc
    /\ currentRun = [runId |-> FirstRunTime, timestamp |-> FirstRunTime]
    /\ startTime = FirstRunTime
    /\ file = SummaryFile
    /\ report = NoReport
    /\ outbox = <<>>
    /\ now = FirstRunTime
    /\ loaded = [from |-> SummaryFile, doc |-> SummaryFile.doc]
    /\ cli = NoCli
    /\ peer = NoPeer

NextWebhooks ==
    \/ AddAiSuggestions(FALSE, {})
    \/ WriteReport(TRUE)
    \/ OnEndUpdateHistory("ok")
    \/ \E slackOk \in BOOLEAN, teamsOk \in BOOLEAN :
          SendWebhookNotifications(options.slackWebhook, options.teamsWebhook,
                                   slackOk, teamsOk)

SpecWebhooks == InitWebhooks /\ [][NextWebhooks]_vars

----------------------------------------------------------------------------
(* Two reporter processes on one history file.  The first is the process   *)
(* of the variables above, in a quiet environment; the second is peer, a   *)
(* record of the same fields, constructed with the default options, no API *)
(* key and no webhook.  fs.writeFileSync is not atomic: it opens the file  *)
(* truncating it and then writes from offset 0.  The write of the peer is  *)
(* two steps, so that the first process can read or write the file in      *)
(* between; the write of the first process is one step, which loses no     *)
(* interleaving, the two processes running the same code and two           *)
(* truncations leaving the same file in either order.                      *)

\* the run ids of the two processes differ: the peer started in another
\* millisecond
RaceSkew == 100

RaceStatuses == {"passed", "failed"}

\* the test the first process runs, with its retries; the peer runs any
RaceTest == [file |-> "a.spec.ts", title |-> "t1"]

\* the file before the two runs: none, or the document of one earlier run
RaceFiles ==
    { Missing,
      Json([runs |-> <<>>,
            tests |-> Put(EmptyMap, "a.spec.ts::t1", <<Entry(TRUE, FALSE, 10, 0)>>),
            summaries |-> <<OldSummary(0, 1, 0)>>]) }

InitRace ==
    /\ pc = "constructed"
    /\ options = [maxHistoryRuns |-> DefaultMaxHistoryRuns,
                  performanceThreshold |-> DefaultThreshold]
    /\ results = <<>>
    /\ history = EmptyHistory
    /\ currentRun = NoRun
    /\ startTime = 0
    /\ file \in RaceFiles
    /\ report = NoReport
    /\ outbox = <<>>
    /\ now = FirstRunTime
    /\ loaded = NoLoad
    /\ cli = NoCli
    /\ peer = [pc |-> "constructed", results |-> <<>>, history |-> EmptyHistory,
               currentRun |-> NoRun, startTime |-> 0, report |-> NoReport,
               loaded |-> NoLoad, first |-> file, overwrote |-> FALSE,
               last |-> FALSE]

\* onBegin (lines 158-168) of the peer
PeerOnBegin ==
    /\ peer.pc = "constructed"
    /\ LET load == LoadHistory(file, peer.history)
       IN  peer' = [peer EXCEPT !.pc = "running",
                                !.startTime = now,
                                !.history = load.history,
                                !.currentRun = [runId |-> now + RaceSkew,
                                                timestamp |-> now],
                                !.loaded = [from |-> file, doc |-> load.history]]
    /\ UNCHANGED <<pc, options, results, history, currentRun, startTime, file,
                   report, outbox, now, loaded, cli>>

\* onTestEnd (lines 170-256) of the peer
PeerOnTestEnd(test, status, duration, retry) ==
    /\ peer.pc = "running"
    /\ Len(peer.results) < MaxRaceResults
    /\ LET testId == GetTestId(test)
           historyEntries == IF testId \in DOMAIN peer.history.tests
                             THEN peer.history.tests[testId] ELSE <<>>
           testData == [testId |-> testId, title |-> test.title, file |-> test.file,
                        status |-> status, duration |-> duration, retry |-> retry,
                        history |-> historyEntries]
       IN  peer' = [peer EXCEPT !.results =
                       Append(@, Analyse(testData, DefaultThreshold))]
    /\ UNCHANGED <<pc, options, results, history, currentRun, startTime, file,
                   report, outbox, now, loaded, cli>>

\* onEnd (lines 258-273) of the peer up to the open of the history file in
\* fs.writeFileSync (line 350): the report, the record in memory, and the
\* file truncated, which a reader finds unparseable
PeerOnEndOpen ==
    /\ peer.pc = "running"
    /\ peer' = [peer EXCEPT !.pc = "writing",
                            !.report = GenerateHtml(peer.history, peer.results,
                                                    now - peer.startTime),
                            !.history = UpdateHistory(peer.history, peer.results,
                                                      peer.currentRun, now,
                                                      now - peer.startTime,
                                                      DefaultMaxHistoryRuns)]
    /\ file' = Corrupt
    /\ UNCHANGED <<pc, options, results, history, currentRun, startTime, report,
                   outbox, now, loaded, cli>>

\* the rest of the peer's onEnd: the write into the opened file.  When the
\* other process has written the file since the truncation, the peer's bytes
\* replace the beginning of that content: if the peer's document is the
\* shorter one the rest of the other document stays behind it (torn).
PeerOnEndWrite(torn) ==
    /\ peer.pc = "writing"
    /\ torn => file.kind = "json"
    /\ file' = IF torn THEN Corrupt ELSE Json(peer.history)
    /\ peer' = [peer EXCEPT !.pc = "done",
                            !.overwrote = (file.kind = "json"),
                            !.last = (pc \in {"recorded", "done"})]
    /\ UNCHANGED <<pc, options, results, history, currentRun, startTime, report,
                   outbox, now, loaded, cli>>

NextRace ==
    \/ OnBegin
    \/ \E s \in RaceStatuses :
          OnTestEnd(RaceTest, s, 10, Attempts(GetTestId(RaceTest)))
    \/ AddAiSuggestions(FALSE, {})
    \/ WriteReport(TRUE)
    \/ OnEndUpdateHistory("ok")
    \/ SendWebhookNotifications(FALSE, FALSE, TRUE, TRUE)
    \/ PeerOnBegin
    \/ \E t \in TestCases, s \in RaceStatuses :
          PeerOnTestEnd(t, s, 10, Count(peer.results,
                                        LAMBDA r : r.testId = GetTestId(t)))
    \/ PeerOnEndOpen
    \/ \E torn \in BOOLEAN : PeerOnEndWrite(torn)

SpecRace == InitRace /\ [][NextRace]_vars

----------------------------------------------------------------------------
(* Properties *)

Recorded == pc \in {"recorded", "done"}
BeforeRecord == pc \in {"running", "suggested", "reported", "reportWriteFailed"}

EntriesOf(doc, testId) ==
    IF testId \in DOMAIN doc.tests THEN doc.tests[testId] ELSE <<>>

SummariesOf(doc) == IF "summaries" \in DOMAIN doc THEN doc.summaries ELSE <<>>

NotifiedIds == {results[i].testId : i \in 1..Len(results)}

\* the last n elements of s, none when n = 0
LastN(s, n) == IF n >= Len(s) THEN s ELSE SubSeq(s, Len(s) - n + 1, Len(s))

\* C1: once a run has recorded, every per-test sequence of the persisted
\* document (also of the tests that did not run) and its summaries sequence
\* have at most maxHistoryRuns elements, for every maxHistoryRuns >= 0 and
\* every document the run loaded.
C1_HistoryWithinCap ==
    Recorded =>
        /\ file.kind = "json"
        /\ \A id \in DOMAIN file.doc.tests :
              Len(file.doc.tests[id]) <= options.maxHistoryRuns
        /\ Len(file.doc.summaries) <= options.maxHistoryRuns

\* C2: recording one outcome for a test whose prior sequence is S leaves the
\* last maxHistoryRuns elements of S followed by the new entry, and the
\* summaries sequence is the last maxHistoryRuns elements of the loaded
\* summaries followed by the summary of this run.
C2_AppendThenTrimFront ==
    Recorded =>
        /\ \A i \in 1..Len(results) :
              Attempts(results[i].testId) = 1 =>
                  file.doc.tests[results[i].testId] =
                      LastN(Append(EntriesOf(loaded.doc, results[i].testId),
                                   [passed |-> results[i].status = "passed",
                                    duration |-> results[i].duration,
                                    timestamp |-> now,
                                    skipped |-> results[i].status = "skipped"]),
                            options.maxHistoryRuns)
        /\ LET persisted == file.doc.summaries
               n == Len(persisted)
           IN  IF options.maxHistoryRuns = 0 THEN persisted = <<>>
               ELSE /\ n >= 1
                    /\ persisted[n].runId = currentRun.runId
                    /\ persisted[n].total = Len(results)
                    /\ SubSeq(persisted, 1, n - 1) =
                           LastN(SummariesOf(loaded.doc), options.maxHistoryRuns - 1)

\* C3: recording a run lengthens the sequence of every test identity that
\* was notified in the run by exactly one entry, however many notifications
\* carried that identity, whenever one more entry fits under the cap.
C3_OneEntryPerTestPerRun ==
    Recorded =>
        \A id \in NotifiedIds :
            Len(EntriesOf(loaded.doc, id)) + 1 <= options.maxHistoryRuns =>
                Len(file.doc.tests[id]) = Len(EntriesOf(loaded.doc, id)) + 1

\* C4: from onBegin up to the record step of onEnd (test notifications, AI
\* suggestions, the report write and its failure) the history file holds
\* what it held when the run began.
C4_FileUntouchedBeforeRecord ==
    BeforeRecord => file = loaded.from

C4_Witness ==
    /\ pc = "reported"
    /\ Len(results) = MaxResults
    /\ \E i \in 1..Len(results) : "aiSuggestion" \in DOMAIN results[i]
    /\ file = loaded.from
    /\ file.kind = "json"

\* C5: up to the record step the in-memory document is the document as
\* loaded, and every result of the run carries the entries its test had in
\* the loaded document.
C5_HistoryFrozenUntilRecord ==
    BeforeRecord =>
        /\ history = loaded.doc
        /\ \A i \in 1..Len(results) :
              results[i].history = EntriesOf(loaded.doc, results[i].testId)

C5_Witness ==
    /\ pc = "running"
    /\ Len(results) = 2
    /\ results[1].testId = results[2].testId
    /\ results[2].history # <<>>
    /\ history = loaded.doc

\* C6: with the history file missing or unparseable, onBegin does not fail,
\* the in-memory document is the empty document, and every test of the run
\* is analysed as having no history.
C6_LoadNeverFails ==
    (pc \notin {"idle", "constructed"} /\ loaded.from.kind \in {"missing", "corrupt"}) =>
        /\ pc # "beginFailed"
        /\ loaded.doc = [runs |-> <<>>, tests |-> EmptyMap, summaries |-> <<>>]
        /\ \A i \in 1..Len(results) :
              /\ results[i].history = <<>>
              /\ "flakinessScore" \notin DOMAIN results[i]
              /\ results[i].flakinessIndicator \in {"New", "Skipped"}

C6_Witness ==
    /\ pc = "running"
    /\ loaded.from.kind = "corrupt"
    /\ history = [runs |-> <<>>, tests |-> EmptyMap, summaries |-> <<>>]
    /\ Len(results) > 0
    /\ results[1].flakinessIndicator = "New"

IsLegacyShape(doc) == DOMAIN doc \subseteq TestIds
IsCurrentShape(doc) == {"runs", "tests"} \subseteq DOMAIN doc

\* C7: a loaded legacy-shape document becomes the current shape with the
\* loaded root as its tests mapping and empty runs and summaries; a loaded
\* current-shape document is taken unchanged.
C7_LegacyUpgrade ==
    (pc = "running" /\ loaded.from.kind = "json") =>
        /\ IsLegacyShape(loaded.from.doc) =>
              /\ DOMAIN history = {"runs", "tests", "summaries"}
              /\ history.tests = loaded.from.doc
              /\ history.runs = <<>>
              /\ history.summaries = <<>>
        /\ IsCurrentShape(loaded.from.doc) => history = loaded.from.doc

C7_Witness ==
    /\ pc = "running"
    /\ loaded.from.kind = "json"
    /\ IsLegacyShape(loaded.from.doc)
    /\ DOMAIN loaded.from.doc # {}
    /\ history.tests = loaded.from.doc

NonSkipped(h) == {k \in 1..Len(h) : ~IsSkipped(h[k])}
Failures(h) == {k \in NonSkipped(h) : ~h[k].passed}

C9_SkippedIndicator ==
    \A i \in 1..Len(results) :
        results[i].status = "skipped" =>
            /\ results[i].flakinessIndicator = "Skipped"
            /\ "flakinessScore" \notin DOMAIN results[i]

C9_Witness ==
    /\ Len(results) = 1
    /\ results[1].status = "skipped"
    /\ Len(results[1].history) = 3
    /\ Cardinality(Failures(results[1].history)) = 3
    /\ results[1].flakinessIndicator = "Skipped"

\* C10: a non-skipped test whose history is empty or holds only skipped
\* entries has the indicator New, no flakiness score, no averageDuration and
\* the performance trend Baseline.
C10_NewWithoutHistory ==
    \A i \in 1..Len(results) :
        LET r == results[i]
            h == EntriesOf(loaded.doc, r.testId)
        IN  (r.status # "skipped" /\ NonSkipped(h) = {}) =>
                /\ r.flakinessIndicator = "New"
                /\ "flakinessScore" \notin DOMAIN r
                /\ "averageDuration" \notin DOMAIN r
                /\ r.performanceTrend = "Baseline"

C10_Witness ==
    /\ Len(results) = 1
    /\ results[1].status = "timedOut"
    /\ Len(results[1].history) = 2
    /\ NonSkipped(results[1].history) = {}
    /\ results[1].flakinessIndicator = "New"

\* Run B: the process that loaded the file run A wrote.
InRunB == pc \notin {"idle", "constructed"} /\ Len(SummariesOf(loaded.doc)) = 1

\* run A recorded one entry per test and every test passed
RunAAllPassed ==
    /\ DOMAIN loaded.doc.tests # {}
    /\ \A id \in DOMAIN loaded.doc.tests :
          /\ Len(loaded.doc.tests[id]) = 1
          /\ loaded.doc.tests[id][1].passed

\* run B is run against the tests of run A, each notified once, and exactly
\* one of them fails
OneNewlyFailing ==
    /\ NotifiedIds = DOMAIN loaded.doc.tests
    /\ Len(results) = Cardinality(NotifiedIds)
    /\ Cardinality({i \in 1..Len(results) : IsFailure(results[i])}) = 1
    /\ \A i \in 1..Len(results) : results[i].status \in {"passed", "failed", "timedOut"}

SummaryFailedIncrements ==
    (Recorded /\ OneNewlyFailing) =>
        /\ Len(file.doc.summaries) = 2
        /\ file.doc.summaries[1] = loaded.doc.summaries[1]
        /\ file.doc.summaries[2].failed = loaded.doc.summaries[1].failed + 1

\* C11 as stated: after a run A that recorded one passing entry per test, the
\* test that newly fails in run B has in run B the flakiness score 0.5 (1
\* failure of 2 entries) and the indicator Unstable, and the summary of run B
\* has failed = failed of run A + 1.
C11_SecondRunScoresHalf ==
    (InRunB /\ RunAAllPassed) =>
        /\ \A i \in 1..Len(results) :
              (IsFailure(results[i]) /\ results[i].testId \in DOMAIN loaded.doc.tests) =>
                  /\ "flakinessScore" \in DOMAIN results[i]
                  /\ 2 * results[i].flakinessScore.num = results[i].flakinessScore.den
                  /\ results[i].flakinessIndicator = "Unstable"
        /\ SummaryFailedIncrements

\* C11 amended: the test that newly fails in run B is scored in run B on the
\* entry of run A alone, score 0 (0 failures of 1 entry) and indicator
\* Stable; the record step of run B leaves it 2 entries of which 1 is a
\* failure, a history that getFlakinessIndicator classifies Flaky, and the
\* summary of run B has failed = failed of run A + 1.
C11_SecondRunScoresLoadedHistory ==
    (InRunB /\ RunAAllPassed) =>
        /\ \A i \in 1..Len(results) :
              (IsFailure(results[i]) /\ results[i].testId \in DOMAIN loaded.doc.tests) =>
                  /\ "flakinessScore" \in DOMAIN results[i]
                  /\ results[i].flakinessScore = [num |-> 0, den |-> 1]
                  /\ results[i].flakinessIndicator = "Stable"
                  /\ (Recorded /\ OneNewlyFailing) =>
                        LET h == file.doc.tests[results[i].testId]
                        IN  /\ Len(h) = 2
                            /\ Cardinality(NonSkipped(h)) = 2
                            /\ Cardinality(Failures(h)) = 1
                            /\ GetFlakinessIndicator(
                                   [num |-> Cardinality(Failures(h)),
                                    den |-> Cardinality(NonSkipped(h))]) = "Flaky"
        /\ SummaryFailedIncrements

C11_Witness ==
    /\ InRunB
    /\ RunAAllPassed
    /\ Recorded
    /\ OneNewlyFailing
    /\ Len(results) = 2
    /\ results[2].status = "failed"
    /\ results[2].flakinessIndicator = "Stable"
    /\ file.doc.summaries[2].failed = 1

\* the summary the record step of this run has persisted
ThisSummary == file.doc.summaries[Len(file.doc.summaries)]

StatusCount(S) == Cardinality({i \in 1..Len(results) : results[i].status \in S})

\* the integer nearest to num/den (den > 0, num >= 0), halves up
RoundHalfUp(num, den) == (2 * num + den) \div (2 * den)

\* C12: the passRate of the run's summary is 0 when passed + failed = 0 and
\* otherwise passed / (passed + failed) * 100 rounded to the nearest integer,
\* halves up; skipped and interrupted results are not in the denominator;
\* the value is an integer in 0..100.
C12_PassRateRoundedHalfUp ==
    Recorded =>
        LET passed == StatusCount({"passed"})
            failed == StatusCount({"failed", "timedOut"})
        IN  /\ ThisSummary.passRate \in 0..100
            /\ ThisSummary.passRate =
                   IF passed + failed = 0 THEN 0
                   ELSE RoundHalfUp(100 * passed, passed + failed)

ResultsWhere(P(_)) == Cardinality({i \in 1..Len(results) : P(results[i])})

\* C13: in the summary of a run, failed is the number of results with status
\* failed or timedOut, passed the number with status passed, skipped the
\* number with status skipped, total the number of all results, flaky the
\* number of results with a defined flakiness score >= 0.30, and slow the
\* number of results whose performance label is slower.
C13_SummaryCounts ==
    Recorded =>
        /\ ThisSummary.failed = StatusCount({"failed", "timedOut"})
        /\ ThisSummary.passed = StatusCount({"passed"})
        /\ ThisSummary.skipped = StatusCount({"skipped"})
        /\ ThisSummary.total = Len(results)
        /\ ThisSummary.flaky =
               ResultsWhere(LAMBDA r : /\ "flakinessScore" \in DOMAIN r
                                       /\ 10 * r.flakinessScore.num >=
                                              3 * r.flakinessScore.den)
        /\ ThisSummary.slow = ResultsWhere(LAMBDA r : r.performanceTrend = "slower")

C13_Witness ==
    /\ Recorded
    /\ StatusCount({"failed"}) = 2
    /\ StatusCount({"timedOut"}) = 1
    /\ StatusCount({"interrupted"}) = 1
    /\ ThisSummary.failed = 3
    /\ ThisSummary.passed = 2
    /\ ThisSummary.skipped = 1
    /\ ThisSummary.total = 7
    /\ ThisSummary.flaky = 4
    /\ ThisSummary.slow = 2

\* the non-skipped entries of h, in order
Relevant(h) == SelectSeq(h, LAMBDA e : ~IsSkipped(e))

\* C14: for a non-skipped test with a non-skipped history of positive mean
\* duration, with relativeDiff = (current - average) / average: the label is
\* slower iff relativeDiff > performanceThreshold, faster iff relativeDiff <
\* -performanceThreshold, and Stable otherwise, so also when relativeDiff is
\* the threshold itself in either direction.  (relativeDiff = d / sum for
\* d = current * n - sum over the n entries.)
C14_TrendThresholds ==
    \A i \in 1..Len(results) :
        LET r == results[i]
            h == Relevant(EntriesOf(loaded.doc, r.testId))
            sum == SumDuration(h)
            d == r.duration * Len(h) - sum
            th == options.performanceThreshold
        IN  (r.status # "skipped" /\ Len(h) > 0 /\ sum > 0) =>
                /\ r.performanceTrend \in {"slower", "faster", "Stable"}
                /\ r.performanceTrend = "slower" <=> d * th.den > th.num * sum
                /\ r.performanceTrend = "faster" <=> d * th.den < -(th.num * sum)

\* C15: for a non-skipped test whose non-skipped history has the mean
\* duration 0, the analysis yields the neutral label (Stable or Baseline)
\* for every current duration; the test is not labelled slower and not
\* counted as slow.
C15_ZeroAverageNeutral ==
    \A i \in 1..Len(results) :
        LET r == results[i]
            h == Relevant(EntriesOf(loaded.doc, r.testId))
        IN  (r.status # "skipped" /\ Len(h) > 0 /\ SumDuration(h) = 0) =>
                /\ r.performanceTrend \in {"Stable", "Baseline"}
                /\ ~IsSlow(r)

Analysed(r) == "retryInfo" \in DOMAIN r

\* C16: passedOnRetry is the retry count when the status is passed and the
\* retry count is > 0 and -1 in every other case; failedRetries is the retry
\* count when the status is failed or timedOut and 0 for every other status;
\* totalRetries is the retry count.
C16_RetryCounts ==
    \A i \in 1..Len(results) :
        LET r == results[i] IN
        Analysed(r) =>
            /\ r.retryInfo.totalRetries = r.retry
            /\ r.retryInfo.passedOnRetry =
                   IF r.status = "passed" /\ r.retry > 0 THEN r.retry ELSE -1
            /\ r.status \in {"failed", "timedOut"} => r.retryInfo.failedRetries = r.retry
            /\ r.status \in {"passed", "skipped", "interrupted"} =>
                   r.retryInfo.failedRetries = 0

C16_Witness ==
    /\ Len(results) = 1
    /\ Analysed(results[1])
    /\ results[1].status = "interrupted"
    /\ results[1].retry = 2
    /\ results[1].retryInfo.failedRetries = 0
    /\ results[1].retryInfo.passedOnRetry = -1

\* C17: for every status and retry count r >= 0, retryPattern has r + 1
\* entries, the first r are false and the last is (status = passed).
C17_RetryPattern ==
    \A i \in 1..Len(results) :
        LET r == results[i] IN
        Analysed(r) =>
            LET pattern == r.retryInfo.retryPattern
            IN  /\ Len(pattern) = r.retry + 1
                /\ \A k \in 1..r.retry : pattern[k] = FALSE
                /\ pattern[r.retry + 1] = (r.status = "passed")

C17_Witness ==
    /\ Len(results) = 1
    /\ Analysed(results[1])
    /\ results[1].status = "passed"
    /\ results[1].retry = 2
    /\ results[1].retryInfo.retryPattern = <<FALSE, FALSE, TRUE>>
    /\ results[1].retryInfo.passedOnRetry = 2

\* the entries of h recorded with retry > 0
WithRetries(h) == {k \in 1..Len(h) : "retry" \in DOMAIN h[k] /\ h[k].retry > 0}

\* needsAttention is true exactly when the retry count is at least the
\* threshold or more than half of the history entries have retry > 0
NeedsAttentionRule ==
    \A i \in 1..Len(results) :
        LET r == results[i] IN
        Analysed(r) =>
            (r.retryInfo.needsAttention <=>
                \/ r.retry >= options.retryFailureThreshold
                \/ 2 * Cardinality(WithRetries(r.history)) > Len(r.history))

\* C18: needsAttention is true exactly when the retry count is at least the
\* threshold or more than half of the history entries were recorded with
\* retry > 0; and a test whose history the record step wrote from runs that
\* all needed retries is flagged whatever its current retry count.
C18_NeedsAttention ==
    /\ NeedsAttentionRule
    /\ \A i \in 1..Len(results) :
          LET r == results[i] IN
          Analysed(r) =>
              \A retry \in 1..MaxRetry, n \in 1..MaxRetryHist :
                  r.history = RecordedFrom(retry, n) => r.retryInfo.needsAttention

\* the requests of the outbox sent to one destination, in order
SentTo(dest) == SelectSeq(outbox, LAMBDA m : m.to = dest)

FailedResults == SelectSeq(results, IsFailure)

\* C19: a failed AI request, Slack post or Teams post does not end onEnd:
\* onEnd stops early only on a failed write; once the AI step has run with
\* an API key there is one request per failed test, whichever of them
\* failed; and when onEnd has returned, the report is written, the history
\* is persisted, and with failures in the run every configured webhook has
\* been posted to, Teams also after a failed Slack post.
C19_ExternalFailuresContained ==
    /\ pc \in {"running", "suggested", "reported", "reportWriteFailed", "recorded",
               "historyWriteFailed", "done"}
    /\ (pc # "running" /\ SentTo("ai") # <<>>) =>
           /\ Len(SentTo("ai")) = Len(FailedResults)
           /\ \A j \in 1..Len(FailedResults) :
                  SentTo("ai")[j].testId = FailedResults[j].testId
    /\ pc = "done" =>
           /\ report = GenerateHtml(loaded.doc, results, now - startTime)
           /\ file = Json(history)
           /\ history = UpdateHistory(loaded.doc, results, currentRun, now,
                                      now - startTime, options.maxHistoryRuns)
           /\ FailedResults # <<>> =>
                  /\ Len(SentTo("slack")) = (IF options.slackWebhook THEN 1 ELSE 0)
                  /\ Len(SentTo("teams")) = (IF options.teamsWebhook THEN 1 ELSE 0)

C19_Witness ==
    /\ pc = "done"
    /\ Len(FailedResults) = 2
    /\ Len(SentTo("ai")) = 2
    /\ ~SentTo("ai")[1].ok
    /\ SentTo("ai")[2].ok
    /\ "aiSuggestion" \notin DOMAIN FailedResults[1]
    /\ "aiSuggestion" \in DOMAIN FailedResults[2]
    /\ Len(SentTo("slack")) = 1
    /\ ~SentTo("slack")[1].ok
    /\ Len(SentTo("teams")) = 1
    /\ report.kind = "html"
    /\ file = Json(history)

\* C20: a failed write of the report file or of the history file ends onEnd
\* and no later step runs: after a failed report write the history file and
\* the in-memory document are as loaded and no webhook has been posted to;
\* after a failed history write no webhook has been posted to; and the later
\* steps have run only after the writes before them succeeded.
C20_WriteFailuresPropagate ==
    /\ pc = "reportWriteFailed" =>
           /\ report = NoReport
           /\ file = loaded.from
           /\ history = loaded.doc
           /\ SentTo("slack") = <<>> /\ SentTo("teams") = <<>>
    /\ pc = "historyWriteFailed" =>
           /\ file # Json(history)
           /\ SentTo("slack") = <<>> /\ SentTo("teams") = <<>>
    /\ pc \in {"reported", "recorded", "historyWriteFailed", "done"} =>
           report.kind = "html"
    /\ pc \in {"recorded", "done"} => file = Json(history)
    /\ (SentTo("slack") # <<>> \/ SentTo("teams") # <<>>) => pc = "done"

C20_Witness ==
    /\ pc = "historyWriteFailed"
    /\ FailedResults # <<>>
    /\ options.slackWebhook
    /\ report.kind = "html"
    /\ file = Corrupt
    /\ SentTo("slack") = <<>>

\* the data points of the persisted summaries, oldest first, as the four
\* series of the chart show them
PersistedPoints(doc) ==
    [i \in 1..Len(SummariesOf(doc)) |->
        [passed |-> SummariesOf(doc)[i].passed, failed |-> SummariesOf(doc)[i].failed,
         duration |-> SummariesOf(doc)[i].duration, flaky |-> SummariesOf(doc)[i].flaky,
         slow |-> SummariesOf(doc)[i].slow]]

\* the data point of the current run
CurrentPoint ==
    [passed |-> StatusCount({"passed"}), failed |-> StatusCount({"failed", "timedOut"}),
     duration |-> now - startTime,
     flaky |-> ResultsWhere(IsFlaky), slow |-> ResultsWhere(IsSlow)]

\* C21: the trend of a written report is empty when the loaded history holds
\* 0 or 1 summaries; with n >= 2 summaries each series holds exactly n + 1
\* data points, one per persisted summary from the oldest to the newest and
\* then one for the current run.
C21_TrendPoints ==
    report # NoReport =>
        LET n == Len(SummariesOf(loaded.doc))
        IN  IF n < 2 THEN report.trend = <<>>
            ELSE /\ Len(report.trend) = n + 1
                 /\ SubSeq(report.trend, 1, n) = PersistedPoints(loaded.doc)
                 /\ report.trend[n + 1] = CurrentPoint

C21_Witness ==
    /\ report # NoReport
    /\ Len(SummariesOf(loaded.doc)) = 2
    /\ Len(report.trend) = 3
    /\ report.trend[3].failed = 1


\* C24: the merge tool exits with code 1 whenever no input history file or
\* no output path is given (an empty argument list and a trailing -o without
\* a value included), exits with code 0 when help is requested, and calls
\* mergeHistories only when at least one input file and an output path are
\* present.
C24_CliExitCodes ==
    cli.pc = "exited" =>
        LET parsed == ParseCommandLine(cli.args)
            incomplete == parsed.historyFiles = <<>> \/ Falsy(parsed.outputFile)
        IN  /\ HelpRequested(cli.args) => cli.exitCode = 0
            /\ (~HelpRequested(cli.args) /\ incomplete) => cli.exitCode = 1
            /\ cli.called => ~incomplete

\* C24, amended: the merge tool exits with code 0 when help is requested or
\* the argument list is empty; otherwise it exits with code 1 whenever no
\* input history file or no output path is given (a trailing -o without a
\* value included); it calls mergeHistories only when at least one input
\* file and an output path are present.
C24_CliExitCodesHelpOnEmpty ==
    cli.pc = "exited" =>
        LET parsed == ParseCommandLine(cli.args)
            incomplete == parsed.historyFiles = <<>> \/ Falsy(parsed.outputFile)
            help == cli.args = <<>> \/ HelpRequested(cli.args)
        IN  /\ help => cli.exitCode = 0 /\ ~cli.called
            /\ (~help /\ incomplete) => cli.exitCode = 1
            /\ cli.called => ~incomplete

C24_Witness ==
    /\ cli.pc = "exited"
    /\ cli.args = <<"a.json", "-o">>
    /\ cli.exitCode = 1
    /\ ~cli.called


\* the -n of the command that has run
MaxRunsGiven == ParseCommandLine(cli.args).maxRuns[1]

\* every sequence of the document holds at most cap elements
WithinCap(doc, cap) ==
    /\ Len(doc.summaries) <= cap
    /\ \A id \in DOMAIN doc.tests : Len(doc.tests[id]) <= cap

SameDocument(d, e) ==
    /\ d.runs = e.runs
    /\ DOMAIN d.tests = DOMAIN e.tests
    /\ \A id \in DOMAIN d.tests : d.tests[id] = e.tests[id]
    /\ d.summaries = e.summaries

\* C22: merging a single document, or a document with itself, yields a
\* document equal to it (same runs, same per-test sequences, same
\* summaries), for every document that is sorted by timestamp and within the
\* maxHistoryRuns of the merge.
C22_MergeIdempotent ==
    \A out \in {"a.out", "aa.out"} :
        (out \in DOMAIN cli.disk /\ WithinCap(cli.disk["a.json"], MaxRunsGiven))
            => SameDocument(cli.disk[out], cli.disk["a.json"])

\* the last evicted and the first kept element of s under cap have different
\* timestamps
NoEvictionTie(s, cap) ==
    Len(s) > cap => s[Len(s) - cap].timestamp # s[Len(s) - cap + 1].timestamp

\* C23: for inputs with disjoint run ids, merging in either order gives the
\* same set of runs, the same per-test sequences and the same summaries,
\* whenever no two entries competing for eviction share a timestamp.
C23_MergeCommutative ==
    ({"ab.out", "ba.out"} \subseteq DOMAIN cli.disk
        /\ NoEvictionTie(SortByTimestamp(cli.disk["a.json"].summaries
                                         \o cli.disk["b.json"].summaries), MaxRunsGiven)
        /\ \A id \in DOMAIN cli.disk["a.json"].tests \cap DOMAIN cli.disk["b.json"].tests :
              NoEvictionTie(SortByTimestamp(cli.disk["a.json"].tests[id]
                                            \o cli.disk["b.json"].tests[id]), MaxRunsGiven))
    => LET ab == cli.disk["ab.out"]
           ba == cli.disk["ba.out"]
       IN  /\ {ab.runs[i] : i \in 1..Len(ab.runs)} = {ba.runs[i] : i \in 1..Len(ba.runs)}
           /\ DOMAIN ab.tests = DOMAIN ba.tests
           /\ \A id \in DOMAIN ab.tests : ab.tests[id] = ba.tests[id]
           /\ ab.summaries = ba.summaries


\* the titles of the first n failed or timed out results, in result order
FirstFailingTitles(n) ==
    [i \in 1..(IF Len(FailedResults) < n THEN Len(FailedResults) ELSE n) |->
        FailedResults[i].title]

\* C25: notifications are posted only when the run has at least one failed
\* or timed out test, only to the webhooks that are configured, at most once
\* per configured webhook, and each lists at most the first 5 failing tests
\* in result order.
C25_WebhookPosts ==
    \A dest \in {"slack", "teams"} :
        LET posts == SentTo(dest)
            configured == IF dest = "slack" THEN options.slackWebhook
                          ELSE options.teamsWebhook
        IN  /\ posts # <<>> => (FailedResults # <<>> /\ configured)
            /\ Len(posts) <= 1
            /\ \A i \in 1..Len(posts) :
                  /\ Len(posts[i].failedTests) <= 5
                  /\ posts[i].failedTests = FirstFailingTitles(5)

C25_Witness ==
    /\ pc = "done"
    /\ Len(FailedResults) = 6
    /\ Len(SentTo("slack")) = 1
    /\ SentTo("teams") = <<>>
    /\ SentTo("slack")[1].failedTests = <<"t1", "t2", "t1", "t2", "t1">>


\* C26: as the README documents, a test is Flaky only when its failure rate
\* is greater than 30%, Unstable when it is between 10% and 30%, and Stable
\* when it is below 10%; a failure rate of exactly 30% is Unstable.
C26_ReadmeFlakinessBands ==
    \A i \in 1..Len(results) :
        LET r == results[i]
            h == EntriesOf(loaded.doc, r.testId)
            total == Cardinality(NonSkipped(h))
            failures == Cardinality(Failures(h))
        IN  (r.status # "skipped" /\ total > 0) =>
                /\ r.flakinessIndicator = "Flaky" => 10 * failures > 3 * total
                /\ (total <= 10 * failures /\ 10 * failures <= 3 * total) =>
                       r.flakinessIndicator = "Unstable"
                /\ 10 * failures < total => r.flakinessIndicator = "Stable"


\* the summaries of doc that carry the run id of the current run
OfCurrentRun(doc) ==
    SelectSeq(SummariesOf(doc), LAMBDA s : s.runId = currentRun.runId)

\* C27: onEnd performs its steps in a fixed order: the AI requests, then the
\* report, then the record and the write of the history, then the webhook
\* posts.  The report and its trend are built from the summaries as loaded,
\* before the summary of the current run is appended, so that the current
\* run appears exactly once in the trend; the webhooks are posted only after
\* the history file has been written.
C27_OnEndOrder ==
    [][ /\ SentTo("ai")' # SentTo("ai") =>
              (pc = "running" /\ report = NoReport /\ file = loaded.from)
        /\ report' # report =>
              /\ pc = "suggested"
              /\ file = loaded.from /\ file' = file
              /\ SummariesOf(history) = SummariesOf(loaded.doc)
              /\ OfCurrentRun(history) = <<>>
              /\ LET n == Len(SummariesOf(loaded.doc))
                 IN  report'.trend # <<>> =>
                        /\ SubSeq(report'.trend, 1, Len(report'.trend) - 1)
                              = PersistedPoints(loaded.doc)
                        /\ report'.trend[n + 1] = CurrentPoint'
        /\ (history' # history \/ file' # file) =>
              (pc = "reported" /\ report # NoReport /\ SentTo("slack") \o SentTo("teams") = <<>>)
        /\ (SentTo("slack")' # SentTo("slack") \/ SentTo("teams")' # SentTo("teams")) =>
              /\ pc = "recorded"
              /\ file = Json(history)
              /\ Len(OfCurrentRun(file.doc)) = 1
              /\ report # NoReport
      ]_vars

C27_Witness ==
    /\ pc = "done"
    /\ SentTo("ai") # <<>>
    /\ Len(SentTo("slack")) = 1
    /\ Len(SentTo("teams")) = 1
    /\ Len(SummariesOf(loaded.doc)) = 2
    /\ Len(report.trend) = 3
    /\ report.trend[3] = CurrentPoint
    /\ Len(SummariesOf(file.doc)) = 3
    /\ Len(OfCurrentRun(file.doc)) = 1


\* C29: the failed count and the pass rate in the header of the report equal
\* the failed count and the passRate of the summary persisted for the same
\* run, for every mix of statuses, timedOut and interrupted included.
C29_HeaderMatchesSummary ==
    (Recorded /\ report # NoReport) =>
        /\ report.failed = ThisSummary.failed
        /\ report.passRate = ThisSummary.passRate


\* C30: the record step leaves the runs of the history document as they
\* are: the metadata of the current run is used for the appended summary
\* only and is never appended to runs, so the persisted runs are the loaded
\* runs, while summaries gains exactly one element, which carries the id of
\* the current run.
C30_RunsUnchanged ==
    /\ history.runs = loaded.doc.runs
    /\ Recorded =>
          LET old == SummariesOf(loaded.doc)
              new == SummariesOf(file.doc)
          IN  /\ file.doc.runs = loaded.doc.runs
              /\ \A i \in 1..Len(file.doc.runs) : file.doc.runs[i].runId # currentRun.runId
              /\ new # <<>>
              /\ new[Len(new)].runId = currentRun.runId
              /\ new[Len(new)].timestamp = currentRun.timestamp
              /\ Len(OfCurrentRun(file.doc)) = 1
              /\ SubSeq(new, 1, Len(new) - 1) = LastN(old, Len(new) - 1)
              /\ Len(old) < options.maxHistoryRuns => Len(new) = Len(old) + 1

C30_Witness ==
    /\ Recorded
    /\ Len(loaded.doc.runs) = 2
    /\ file.doc.runs = loaded.doc.runs
    /\ Len(SummariesOf(loaded.doc)) = 2
    /\ Len(SummariesOf(file.doc)) = 3
    /\ file.doc.summaries[3].runId = currentRun.runId


\* the summaries of doc that carry the run id id
OfRun(doc, id) == SelectSeq(SummariesOf(doc), LAMBDA s : s.runId = id)

\* the number of results in rs for the test id
ResultsFor(rs, id) == Cardinality({i \in 1..Len(rs) : rs[i].testId = id})

BothDone == pc = "done" /\ peer.pc = "done"

\* the document both processes find when they load before any write
CommonDoc == LoadHistory(peer.first, EmptyHistory).history

\* one process has loaded what the other had persisted
PeerLoadedAfter ==
    peer.loaded.from.kind = "json" /\ OfRun(peer.loaded.doc, currentRun.runId) # <<>>

LoadedAfterPeer ==
    loaded.from.kind = "json" /\ OfRun(loaded.doc, peer.currentRun.runId) # <<>>

\* both processes have loaded the file as it was before the two runs
BothLoadedFirst == loaded.from = peer.first /\ peer.loaded.from = peer.first

\* the file holds the summaries and the entries of both runs on top of the
\* common document
HoldsBothRuns ==
    /\ file.kind = "json"
    /\ Len(OfRun(file.doc, currentRun.runId)) = 1
    /\ Len(OfRun(file.doc, peer.currentRun.runId)) = 1
    /\ Len(SummariesOf(file.doc)) = Len(SummariesOf(CommonDoc)) + 2
    /\ \A id \in TestIds :
          Len(EntriesOf(file.doc, id))
              = Len(EntriesOf(CommonDoc, id)) + ResultsFor(results, id)
                    + ResultsFor(peer.results, id)

\* the file is the document of the process that wrote last: the common
\* document with the summary and the entries of that run only
HoldsLastWriterOnly ==
    LET mine == IF peer.last THEN peer.history ELSE history
        own == IF peer.last THEN peer.currentRun.runId ELSE currentRun.runId
        other == IF peer.last THEN currentRun.runId ELSE peer.currentRun.runId
        rs == IF peer.last THEN peer.results ELSE results
    IN  /\ file = Json(mine)
        /\ Len(OfRun(file.doc, own)) = 1
        /\ OfRun(file.doc, other) = <<>>
        /\ Len(SummariesOf(file.doc)) = Len(SummariesOf(CommonDoc)) + 1
        /\ \A id \in TestIds :
              /\ Len(EntriesOf(file.doc, id))
                    = Len(EntriesOf(CommonDoc, id)) + ResultsFor(rs, id)
              /\ SubSeq(EntriesOf(file.doc, id), 1, Len(EntriesOf(CommonDoc, id)))
                    = EntriesOf(CommonDoc, id)

====
